---- MODULE Spec2Model ----
(***************************************************************************)
(* Verification model of the ccl concurrent containers.                    *)
(*                                                                         *)
(* Part 1: DashMap (src/src/dashmap.rs), the sharded hash map: a boxed     *)
(* slice of 2^ncb RwLock<HashMap<K, V>> shards addressed by the top ncb    *)
(* bits of a nonced hash.  Every map operation is split at its blocking    *)
(* points: the call (arguments are bound, determine_map is evaluated), the *)
(* acquisition of a shard lock, and the body that runs under the lock up   *)
(* to the return (where guards that are not returned are dropped).         *)
(***************************************************************************)
EXTENDS Integers, Naturals, Sequences, FiniteSets, Bags, TLC

(* ------------------------------ bounds -------------------------------- *)
NumThreads == 2
NumKeys == 2
NumValues == 2
NumChunksLog2 == 2
MaxNonce == 1
HashBits == 5
MaxCalls == 3

Threads == 1..NumThreads
Keys == 1..NumKeys
Values == 1..NumValues
NoVal == 0
NoKey == 0
NoShard == -1

(* ------------------------- hashing and shards -------------------------- *)
Pow2(n) == 2 ^ n

\* util::ptr_size_bits(): the width of usize and of the u64 hash (64 in
\* dhashmap.rs), scaled to HashBits.
ptr_size_bits == HashBits

\* the width of i32, the type an unconstrained integer literal falls back to:
\* narrower than the machine word
i32_bits == ptr_size_bits - 1

\* isize::MAX and i32::MAX
isize_MAX == Pow2(ptr_size_bits - 1) - 1
i32_MAX == Pow2(i32_bits - 1) - 1

\* the result of an arithmetic operation that panics ("attempt to shift ...
\* with overflow", "attempt to subtract with overflow") when the build checks
\* for overflow
Overflow == -2

\* SeaHasher fed with the nonce and then the key: a deterministic mixing
\* function of (nonce, key) onto a ptr_size_bits wide word.
Hash(nonce, key) == ((key * 3 + nonce * 3 + 2) * 2) % Pow2(ptr_size_bits)

\* hash >> shift on an unsigned word.  A shift by the width of the word or more
\* panics in a build with overflow checks (chk) and shifts by shift modulo
\* the width in a build without.
ShiftRight(chk, h, shift) ==
  IF shift < ptr_size_bits THEN h \div Pow2(shift)
  ELSE IF chk THEN Overflow
  ELSE h \div Pow2(shift % ptr_size_bits)

\* let shift = util::ptr_size_bits() - self.ncb; (hash >> shift) as usize.  The
\* subtraction is on usize: below zero it panics (chk) or wraps.
determine_map(chk, nonce, bits, key) ==
  LET hash == Hash(nonce, key)
      shift == ptr_size_bits - bits
  IN IF shift >= 0 THEN ShiftRight(chk, hash, shift)
     ELSE IF chk THEN Overflow
     ELSE ShiftRight(chk, hash, shift % Pow2(ptr_size_bits))

\* submaps.len() for a map built by new(num_chunks_log_2)
ncm(bits) == Pow2(bits)
ShardIds(bits) == 0..(ncm(bits) - 1)

(* ------------------------------ RwLock --------------------------------- *)
\* state of one reader/writer lock: a writer flag and a reader count
Unlocked == [w |-> FALSE, r |-> 0]
CanRead(l) == ~l.w
CanWrite(l) == ~l.w /\ l.r = 0
AcqRead(l) == [l EXCEPT !.r = @ + 1]
AcqWrite(l) == [l EXCEPT !.w = TRUE]
RelRead(l) == [l EXCEPT !.r = @ - 1]
RelWrite(l) == [l EXCEPT !.w = FALSE]

(* --------------------------- HashMap<K, V> ----------------------------- *)
\* One shard table: a function Keys -> Values \cup {NoVal}; NoVal = vacant.
EmptyTable == [k \in Keys |-> NoVal]
table_contains_key(tb, k) == tb[k] # NoVal
table_insert(tb, k, v) == [tb EXCEPT ![k] = v]
table_remove(tb, k) == [tb EXCEPT ![k] = NoVal]
table_len(tb) == Cardinality({k \in Keys : tb[k] # NoVal})

(* ------------------------------- state --------------------------------- *)
VARIABLES
  ncb,         \* DashMap.ncb
  hash_nonce,  \* DashMap.hash_nonce
  overflow_checks, \* the build: are arithmetic overflows checked (debug) or not
  submaps,     \* DashMap.submaps: the table of every shard
  lock,        \* the RwLock state of every shard
  pc,          \* position of every thread inside its current call
  op,          \* the running call of every thread: its arguments and locals
  local,       \* the lock guard held in a local variable of the running call
  refs,        \* bag of guarded references each thread has been handed
  ret,         \* what the last call of a thread returned
  calls,       \* number of calls made so far (bounded by MaxCalls)
  abs,         \* history: the map as the order of lock acquisitions defines it
  expect,      \* history: the result the lock order prescribes for the running call
  fcalls,      \* history: how often the running call invoked its default closure
  evals,       \* history: how often the running retain evaluated its predicate per key
  recent,      \* history: per key, the value of the last completed insert / remove
  track,       \* how much history is recorded: "off", "recent", "last" or "all"
  snap,        \* history: the shard tables when the running call was entered
  last,        \* history: the last completed call of every thread
  prev,        \* history: the completed call before the last one
  iters,       \* the Iter of every thread: c_map_index and c_iter
  chs,         \* the chunks() / chunks_write() iterator of every thread
  now,         \* the clock Instant::now() reads
  last_saved,  \* TimedCache.last_saved
  last_purged, \* TimedCache.last_purged
  mtx,         \* the holders of the Mutexes around last_saved and last_purged
  store,       \* the external store behind load_item_fn and save_item_fn
  heap,        \* the nodes of the lock-free containers, by address
  head,        \* ConcurrentStack.head
  pins,        \* the epoch Guards every thread holds (epoch::pin())
  deferred,    \* the destructions handed to Guard::defer_unchecked
  hist,        \* history of the lock-free containers
  pools,       \* UniformAllocator.pools: the Mutex and the segments of every pool
  hl           \* HLTimedCache: lookup, saved, unsaved and the spawned saves

vars == <<ncb, hash_nonce, overflow_checks, submaps, lock, pc, op, local, refs, ret, calls, abs, expect,
          fcalls, evals, recent, track, snap, last, prev, iters, chs,
          now, last_saved, last_purged, mtx, store,
          heap, head, pins, deferred, hist, pools, hl>>

\* the lazy iterators, untouched by the keyed operations
its == <<iters, chs>>

\* the timed cache layered on the map, untouched by the map's own operations
tc == <<now, last_saved, last_purged, mtx, store>>

\* the lock-free containers, untouched by the maps and the cache
lf == <<heap, head, pins, deferred, hist>>

\* the maps and the cache, untouched by the lock-free containers
locked == <<submaps, lock, local, refs, abs, expect, evals, recent>>

\* fixed at construction
cfg == <<ncb, hash_nonce, overflow_checks, track, pools, hl>>

\* The closures handed to retain: pred(k, v) keeps the entry iff k is not the
\* key drop and v >= lo, and (set) stores SetTo in the value it was handed
\* (&mut V).
SetTo == 1
Preds == [drop : Keys \cup {NoKey}, lo : Values, set : BOOLEAN]
NoPred == [drop |-> NoKey, lo |-> 1, set |-> FALSE]
pred_keep(p, k, v) == k # p.drop /\ v >= p.lo
pred_value(p, k, v) == IF p.set THEN SetTo ELSE v
NoOp == [name |-> "none", key |-> NoKey, val |-> NoVal, mapi |-> NoShard,
         i |-> 0, acc |-> 0, p |-> NoPred, inst |-> 0, saved |-> {},
         node |-> 0, seen |-> 0, next |-> 0]
Call(name, k, v, s) == [NoOp EXCEPT !.name = name, !.key = k, !.val = v, !.mapi = s]
NoGuard == [kind |-> "none", mapi |-> NoShard]
NoRet == [op |-> "none", tag |-> "none", key |-> NoKey, val |-> NoVal]
Ret(name, tag, k, v) == [op |-> name, tag |-> tag, key |-> k, val |-> v]
Ref(kind, s, k) == [kind |-> kind, mapi |-> s, key |-> k, gen |-> 0]

mapi_of(k) == determine_map(overflow_checks, hash_nonce, ncb, k)

\* the keys that determine_map routes to shard s
KeysOf(s) == {k \in Keys : mapi_of(k) = s}

\* DashMap::new(num_chunks_log_2): ncm empty shards, a random nonce
new(bits, nonce) ==
  /\ ncb = bits
  /\ hash_nonce = nonce
  /\ submaps = [s \in ShardIds(bits) |-> EmptyTable]
  /\ lock = [s \in ShardIds(bits) |-> Unlocked]

NoEvent == [call |-> NoOp, ret |-> NoRet, pre |-> <<>>]
Other == -1

\* Iter: gen numbers the iterators a thread has made; c_iter is None (c_mapi =
\* NoShard) or the Arc'd read guard of shard c_mapi with the entries not yet
\* yielded (todo).  history: pre is the map when the iterator was made, due the
\* entries found in the shards when they were locked, seen how often each key
\* was yielded, quiet whether every step of the iterator found the map as pre.
NoIter == [gen |-> 0, live |-> FALSE, c_map_index |-> 0, c_mapi |-> NoShard, todo |-> {},
           pre |-> <<>>, due |-> {}, seen |-> [k \in Keys |-> 0], quiet |-> TRUE]
NoChunks == [kind |-> "none", i |-> 0, sum |-> 0]

\* nobody holds the Mutex
Free == 0

\* no timed cache: the clock stands still
NoCache ==
  /\ now = 0
  /\ last_saved = 0
  /\ last_purged = 0
  /\ mtx = [saved |-> Free, purged |-> Free]
  /\ store = [k \in Keys |-> NoVal]

\* a null pointer
Null == 0

\* the addresses the nodes live at: no run allocates more than three a call
Addrs == 1..(3 * MaxCalls)

\* memory that is not allocated
FreeNode == [kind |-> "free"]

\* the keys of the trie: one more than the maps have, for three keys to meet
\* in one bucket
TrieKeys == 1..(NumKeys + 1)

\* nothing has happened to a lock-free container
NoHist ==
  [abs |-> <<>>, pushed |-> {}, popped |-> <<>>, dropped |-> {},
   uaf |-> FALSE, dfree |-> FALSE,
   map |-> [k \in TrieKeys |-> NoVal], ins |-> {}, rem |-> {}, twice |-> FALSE]

\* no lock-free container: the heap is empty
NoHeap ==
  /\ heap = [a \in Addrs |-> FreeNode]
  /\ head = Null
  /\ pins = [t \in Threads |-> 0]
  /\ deferred = {}
  /\ hist = NoHist

\* UniformAllocator::new(pool_count): the default is num_cpus::get() * 2
pool_count == 2

\* const SEGMENT_SIZE: usize = 128, scaled down
SEGMENT_SIZE == 2

\* const SEGMENT_MOVE_THRESHOLD: usize = SEGMENT_SIZE / 4
SEGMENT_MOVE_THRESHOLD == SEGMENT_SIZE \div 4

\* MemoryPool::new() behind Mutex::new: no segments
NoPools == [p \in 0..(pool_count - 1) |-> [mutex |-> Free, segments |-> <<>>]]

\* Entry { time, saved, data }, and the absence of one
HLEntry(saved, data) == [saved |-> saved, data |-> data]
NoEntry == HLEntry(FALSE, NoVal)

\* HLTimedCacheInner::new: three empty maps, nothing spawned
NoHL == [lookup |-> [k \in Keys |-> "none"],
         saved |-> [k \in Keys |-> NoEntry],
         unsaved |-> [k \in Keys |-> NoEntry],
         lock |-> [k \in Keys |-> Unlocked],
         tasks |-> {}]

\* no call is running
Frames0 ==
  /\ pools = NoPools
  /\ hl = NoHL
  /\ iters = [t \in Threads |-> NoIter]
  /\ chs = [t \in Threads |-> NoChunks]
  /\ evals = [t \in Threads |-> [k \in Keys |-> 0]]
  /\ recent = [k \in Keys |-> NoVal]
  /\ snap = [t \in Threads |-> <<>>]
  /\ last = [t \in Threads |-> NoEvent]
  /\ prev = [t \in Threads |-> NoEvent]
  /\ pc = [t \in Threads |-> "idle"]
  /\ op = [t \in Threads |-> NoOp]
  /\ local = [t \in Threads |-> NoGuard]
  /\ refs = [t \in Threads |-> EmptyBag]
  /\ ret = [t \in Threads |-> NoRet]
  /\ expect = [t \in Threads |-> NoRet]
  /\ fcalls = [t \in Threads |-> 0]

\* no call is running and no lock-free container exists
Idle0 ==
  /\ NoHeap
  /\ Frames0

\* The maps the states below hold have 2 <= ncb < ptr_size_bits, where no
\* operation overflows: the build is the checked one.
Threads0 ==
  /\ overflow_checks = TRUE
  /\ NoCache
  /\ Idle0

Init ==
  /\ \E nonce \in 0..MaxNonce : new(NumChunksLog2, nonce)
  /\ abs = [k \in Keys |-> NoVal]
  /\ track = "off"
  /\ calls = 0
  /\ Threads0

\* the same map, with the call history recorded
InitHist ==
  /\ \E nonce \in 0..MaxNonce : new(NumChunksLog2, nonce)
  /\ abs = [k \in Keys |-> NoVal]
  /\ track = "all"
  /\ calls = 0
  /\ Threads0

\* the same map, with the last completed insert / remove of every key recorded
InitRecent ==
  /\ \E nonce \in 0..MaxNonce : new(NumChunksLog2, nonce)
  /\ abs = [k \in Keys |-> NoVal]
  /\ track = "recent"
  /\ calls = 0
  /\ Threads0

\* the same map, with the last call of every thread recorded
InitLast ==
  /\ \E nonce \in 0..MaxNonce : new(NumChunksLog2, nonce)
  /\ abs = [k \in Keys |-> NoVal]
  /\ track = "last"
  /\ calls = 0
  /\ Threads0

\* a thread enters a call: the arguments are bound and the call is counted.  A
\* blocking call is entered in the step in which its first lock is granted: a
\* call that waits for the lock is a thread whose lock action is not enabled.
Enter(t, c, label) ==
  /\ pc[t] = "idle"
  /\ calls < MaxCalls
  /\ calls' = calls + 1
  /\ op' = [op EXCEPT ![t] = c]
  /\ pc' = [pc EXCEPT ![t] = label]
  /\ ret' = [ret EXCEPT ![t] = NoRet]
  /\ fcalls' = [fcalls EXCEPT ![t] = 0]
  /\ snap' = IF track \in {"last", "all"} THEN [snap EXCEPT ![t] = submaps] ELSE snap
  /\ UNCHANGED <<last, prev>>

\* history: a completed call (or a store through a unique reference) is recorded
Record(t, c, r, pre) ==
  IF track \in {"last", "all"}
    THEN /\ last' = [last EXCEPT ![t] = [call |-> c, ret |-> r, pre |-> pre]]
         /\ prev' = IF track = "all" THEN [prev EXCEPT ![t] = last[t]] ELSE prev
    ELSE UNCHANGED <<last, prev>>

SetRecent(f) == recent' = IF track # "off" THEN f ELSE recent

\* a non-blocking call that returns r without having taken a lock
Bounce(t, c, r) ==
  /\ pc[t] = "idle"
  /\ calls < MaxCalls
  /\ calls' = calls + 1
  /\ ret' = [ret EXCEPT ![t] = r]
  /\ fcalls' = [fcalls EXCEPT ![t] = 0]
  /\ Record(t, c, r, submaps)
  /\ UNCHANGED <<pc, op, snap>>

\* the running call moves on to its next blocking point
Goto(t, label) ==
  /\ pc' = [pc EXCEPT ![t] = label]
  /\ UNCHANGED <<calls, ret, snap, last, prev>>

\* submaps.get_unchecked(mapi).write() returns: the guard lands in a local
LockWrite(t, s) ==
  /\ s \in DOMAIN lock
  /\ CanWrite(lock[s])
  /\ lock' = [lock EXCEPT ![s] = AcqWrite(@)]
  /\ local' = [local EXCEPT ![t] = [kind |-> "write", mapi |-> s]]

\* submaps.get_unchecked(mapi).read() returns
LockRead(t, s) ==
  /\ s \in DOMAIN lock
  /\ CanRead(lock[s])
  /\ lock' = [lock EXCEPT ![s] = AcqRead(@)]
  /\ local' = [local EXCEPT ![t] = [kind |-> "read", mapi |-> s]]

\* the local guard goes out of scope
DropLocal(t) ==
  /\ lock' = [lock EXCEPT ![local[t].mapi] =
                 IF local[t].kind = "write" THEN RelWrite(@) ELSE RelRead(@)]
  /\ local' = [local EXCEPT ![t] = NoGuard]

\* the local guard is moved into the returned reference (OwningRef::new)
MoveLocal(t, kind) ==
  /\ refs' = [refs EXCEPT ![t] = @ (+) SetToBag({Ref(kind, local[t].mapi, op[t].key)})]
  /\ local' = [local EXCEPT ![t] = NoGuard]
  /\ UNCHANGED lock

\* the call returns r: its frame (arguments, locals) is gone
Return(t, r) ==
  /\ pc' = [pc EXCEPT ![t] = "idle"]
  /\ op' = [op EXCEPT ![t] = NoOp]
  /\ ret' = [ret EXCEPT ![t] = r]
  /\ Record(t, op[t], r, snap[t])
  /\ UNCHANGED <<calls, snap, fcalls>>

\* history: what a lookup of k yields in the map the lock order defines
AbsLookup(name, hit, miss, k) ==
  IF abs[k] # NoVal THEN Ret(name, hit, k, abs[k]) ELSE Ret(name, miss, k, NoVal)

\* if submap.contains_key(key) { Some(guard mapped to the value) } else { None }:
\* the shape shared by get, get_mut, index, index_mut and the try_get family
Lookup(t, kind, hit, miss) ==
  LET tb == submaps[local[t].mapi]
      k == op[t].key
  IN IF table_contains_key(tb, k)
       THEN /\ MoveLocal(t, kind)
            /\ Return(t, Ret(op[t].name, hit, k, tb[k]))
       ELSE /\ DropLocal(t)
            /\ Return(t, Ret(op[t].name, miss, k, NoVal))
            /\ UNCHANGED refs

(* ------------------------------ insert --------------------------------- *)
\* variant: insert takes the shard's read lock
insert_lock_shared(t, k, v) ==
  /\ Enter(t, Call("insert", k, v, mapi_of(k)), "insert_body")
  /\ LockRead(t, mapi_of(k))
  /\ abs' = [abs EXCEPT ![k] = v]
  /\ expect' = [expect EXCEPT ![t] = Ret("insert", "unit", k, v)]
  /\ UNCHANGED <<cfg, lf, tc, its, submaps, refs, evals, recent>>

\* let mapi = self.determine_map(&key); let mut submap = ...write();
insert_lock(t, k, v) ==
  /\ Enter(t, Call("insert", k, v, mapi_of(k)), "insert_body")
  /\ LockWrite(t, mapi_of(k))
  /\ abs' = [abs EXCEPT ![k] = v]
  /\ expect' = [expect EXCEPT ![t] = Ret("insert", "unit", k, v)]
  /\ UNCHANGED <<cfg, lf, tc, its, submaps, refs, evals, recent>>

\* variant: the shard's table is rebuilt around the new entry
insert_body_wipe(t) ==
  /\ pc[t] = "insert_body"
  /\ submaps' = [submaps EXCEPT ![local[t].mapi] =
                   table_insert(EmptyTable, op[t].key, op[t].val)]
  /\ DropLocal(t)
  /\ Return(t, Ret("insert", "unit", op[t].key, op[t].val))
  /\ SetRecent([recent EXCEPT ![op[t].key] = op[t].val])
  /\ UNCHANGED <<cfg, lf, tc, its, refs, abs, expect, evals>>

\* variant: an occupied entry keeps its value (entry().or_insert)
insert_body_keep(t) ==
  /\ pc[t] = "insert_body"
  /\ submaps' = [submaps EXCEPT ![local[t].mapi] =
                   IF table_contains_key(@, op[t].key) THEN @
                   ELSE table_insert(@, op[t].key, op[t].val)]
  /\ DropLocal(t)
  /\ Return(t, Ret("insert", "unit", op[t].key, op[t].val))
  /\ SetRecent([recent EXCEPT ![op[t].key] = op[t].val])
  /\ UNCHANGED <<cfg, lf, tc, its, refs, abs, expect, evals>>

\* submap.insert(key, value); the unit return is tagged with the arguments
insert_body(t) ==
  /\ pc[t] = "insert_body"
  /\ submaps' = [submaps EXCEPT ![local[t].mapi] = table_insert(@, op[t].key, op[t].val)]
  /\ DropLocal(t)
  /\ Return(t, Ret("insert", "unit", op[t].key, op[t].val))
  /\ SetRecent([recent EXCEPT ![op[t].key] = op[t].val])
  /\ UNCHANGED <<cfg, lf, tc, its, refs, abs, expect, evals>>

(* -------------------------------- get ---------------------------------- *)
get_lock(t, k) ==
  /\ Enter(t, Call("get", k, NoVal, mapi_of(k)), "get_body")
  /\ LockRead(t, mapi_of(k))
  /\ expect' = [expect EXCEPT ![t] = AbsLookup("get", "Some", "None", k)]
  /\ UNCHANGED <<cfg, lf, tc, its, submaps, refs, abs, evals, recent>>

get_body(t) ==
  /\ pc[t] = "get_body"
  /\ Lookup(t, "shared", "Some", "None")
  /\ UNCHANGED <<cfg, lf, tc, its, submaps, abs, expect, evals, recent>>

(* ------------------------------- index --------------------------------- *)
\* self.get(key).expect("Key did not exist in map")
index_lock(t, k) ==
  /\ Enter(t, Call("index", k, NoVal, mapi_of(k)), "index_body")
  /\ LockRead(t, mapi_of(k))
  /\ expect' = [expect EXCEPT ![t] = AbsLookup("index", "Ref", "panic", k)]
  /\ UNCHANGED <<cfg, lf, tc, its, submaps, refs, abs, evals, recent>>

\* variant: the guard is forgotten, not dropped, when the key is missing
index_body_held(t) ==
  /\ pc[t] = "index_body"
  /\ IF table_contains_key(submaps[local[t].mapi], op[t].key)
       THEN Lookup(t, "shared", "Ref", "panic")
       ELSE /\ local' = [local EXCEPT ![t] = NoGuard]
            /\ Return(t, Ret("index", "panic", op[t].key, NoVal))
            /\ UNCHANGED <<lock, refs>>
  /\ UNCHANGED <<cfg, lf, tc, its, submaps, abs, expect, evals, recent>>

\* get's None has dropped the guard before expect panics
index_body(t) ==
  /\ pc[t] = "index_body"
  /\ Lookup(t, "shared", "Ref", "panic")
  /\ UNCHANGED <<cfg, lf, tc, its, submaps, abs, expect, evals, recent>>

(* ------------------------------ get_mut -------------------------------- *)
get_mut_lock(t, k) ==
  /\ Enter(t, Call("get_mut", k, NoVal, mapi_of(k)), "get_mut_body")
  /\ LockWrite(t, mapi_of(k))
  /\ expect' = [expect EXCEPT ![t] = AbsLookup("get_mut", "Some", "None", k)]
  /\ UNCHANGED <<cfg, lf, tc, its, submaps, refs, abs, evals, recent>>

get_mut_body(t) ==
  /\ pc[t] = "get_mut_body"
  /\ Lookup(t, "unique", "Some", "None")
  /\ UNCHANGED <<cfg, lf, tc, its, submaps, abs, expect, evals, recent>>

(* ----------------------------- index_mut ------------------------------- *)
\* self.get_mut(key).expect("Key did not exist in map")
index_mut_lock(t, k) ==
  /\ Enter(t, Call("index_mut", k, NoVal, mapi_of(k)), "index_mut_body")
  /\ LockWrite(t, mapi_of(k))
  /\ expect' = [expect EXCEPT ![t] = AbsLookup("index_mut", "Ref", "panic", k)]
  /\ UNCHANGED <<cfg, lf, tc, its, submaps, refs, abs, evals, recent>>

index_mut_body(t) ==
  /\ pc[t] = "index_mut_body"
  /\ Lookup(t, "unique", "Ref", "panic")
  /\ UNCHANGED <<cfg, lf, tc, its, submaps, abs, expect, evals, recent>>

(* ---------------------------- contains_key ----------------------------- *)
contains_key_lock(t, k) ==
  /\ Enter(t, Call("contains_key", k, NoVal, mapi_of(k)), "contains_key_body")
  /\ LockRead(t, mapi_of(k))
  /\ expect' = [expect EXCEPT ![t] = Ret("contains_key",
                    IF abs[k] # NoVal THEN "true" ELSE "false", k, NoVal)]
  /\ UNCHANGED <<cfg, lf, tc, its, submaps, refs, abs, evals, recent>>

\* variant: the read guard outlives the call
contains_key_body_held(t) ==
  /\ pc[t] = "contains_key_body"
  /\ local' = [local EXCEPT ![t] = NoGuard]
  /\ Return(t, Ret("contains_key",
                   IF table_contains_key(submaps[local[t].mapi], op[t].key)
                     THEN "true" ELSE "false", op[t].key, NoVal))
  /\ UNCHANGED <<cfg, lf, tc, its, submaps, refs, abs, expect, evals, recent, lock>>

contains_key_body(t) ==
  /\ pc[t] = "contains_key_body"
  /\ DropLocal(t)
  /\ Return(t, Ret("contains_key",
                   IF table_contains_key(submaps[local[t].mapi], op[t].key)
                     THEN "true" ELSE "false", op[t].key, NoVal))
  /\ UNCHANGED <<cfg, lf, tc, its, submaps, refs, abs, expect, evals, recent>>

(* ------------------------------- remove -------------------------------- *)
remove_lock(t, k) ==
  /\ Enter(t, Call("remove", k, NoVal, mapi_of(k)), "remove_body")
  /\ LockWrite(t, mapi_of(k))
  /\ expect' = [expect EXCEPT ![t] = AbsLookup("remove", "Some", "None", k)]
  /\ abs' = [abs EXCEPT ![k] = NoVal]
  /\ UNCHANGED <<cfg, lf, tc, its, submaps, refs, evals, recent>>

\* variant: the entry is reported and left in the table
remove_body_peek(t) ==
  /\ pc[t] = "remove_body"
  /\ LET tb == submaps[local[t].mapi]
         k == op[t].key
     IN Return(t, IF table_contains_key(tb, k) THEN Ret("remove", "Some", k, tb[k])
                                               ELSE Ret("remove", "None", k, NoVal))
  /\ DropLocal(t)
  /\ SetRecent([recent EXCEPT ![op[t].key] = NoVal])
  /\ UNCHANGED <<cfg, lf, tc, its, submaps, refs, abs, expect, evals>>

\* submap.remove_entry(key) under the write guard
remove_body(t) ==
  /\ pc[t] = "remove_body"
  /\ LET tb == submaps[local[t].mapi]
         k == op[t].key
     IN /\ submaps' = [submaps EXCEPT ![local[t].mapi] = table_remove(@, k)]
        /\ Return(t, IF table_contains_key(tb, k) THEN Ret("remove", "Some", k, tb[k])
                                                  ELSE Ret("remove", "None", k, NoVal))
  /\ DropLocal(t)
  /\ SetRecent([recent EXCEPT ![op[t].key] = NoVal])
  /\ UNCHANGED <<cfg, lf, tc, its, refs, abs, expect, evals>>

(* ------------------------------ try_get -------------------------------- *)
\* try_read() / try_write(): Some(guard) if the lock can be taken now, else None
TryLock(t, s, kind) ==
  /\ s \in DOMAIN lock
  /\ IF kind = "read"
       THEN IF CanRead(lock[s]) THEN LockRead(t, s) ELSE UNCHANGED <<lock, local>>
       ELSE IF CanWrite(lock[s]) THEN LockWrite(t, s) ELSE UNCHANGED <<lock, local>>

\* if let Some(submap) = ... { the lookup } else { Err(WouldBlock) }
TryLookup(t, kind) ==
  IF local[t] = NoGuard
    THEN /\ Return(t, Ret(op[t].name, "WouldBlock", op[t].key, NoVal))
         /\ UNCHANGED <<lock, local, refs>>
    ELSE Lookup(t, kind, "Ok", "InvalidKey")

\* variant: the shard's write lock is tried
try_get_call_excl(t, k) ==
  /\ Enter(t, Call("try_get", k, NoVal, mapi_of(k)), "try_get_body")
  /\ TryLock(t, mapi_of(k), "write")
  /\ expect' = [expect EXCEPT ![t] =
                  IF CanWrite(lock[mapi_of(k)])
                    THEN AbsLookup("try_get", "Ok", "InvalidKey", k)
                    ELSE Ret("try_get", "WouldBlock", k, NoVal)]
  /\ UNCHANGED <<cfg, lf, tc, its, submaps, refs, abs, evals, recent>>

try_get_call(t, k) ==
  /\ Enter(t, Call("try_get", k, NoVal, mapi_of(k)), "try_get_body")
  /\ TryLock(t, mapi_of(k), "read")
  /\ expect' = [expect EXCEPT ![t] =
                  IF CanRead(lock[mapi_of(k)])
                    THEN AbsLookup("try_get", "Ok", "InvalidKey", k)
                    ELSE Ret("try_get", "WouldBlock", k, NoVal)]
  /\ UNCHANGED <<cfg, lf, tc, its, submaps, refs, abs, evals, recent>>

try_get_body(t) ==
  /\ pc[t] = "try_get_body"
  /\ TryLookup(t, "shared")
  /\ UNCHANGED <<cfg, lf, tc, its, submaps, abs, expect, evals, recent>>

(* ---------------------------- try_get_mut ------------------------------ *)
try_get_mut_call(t, k) ==
  /\ Enter(t, Call("try_get_mut", k, NoVal, mapi_of(k)), "try_get_mut_body")
  /\ TryLock(t, mapi_of(k), "write")
  /\ expect' = [expect EXCEPT ![t] =
                  IF CanWrite(lock[mapi_of(k)])
                    THEN AbsLookup("try_get_mut", "Ok", "InvalidKey", k)
                    ELSE Ret("try_get_mut", "WouldBlock", k, NoVal)]
  /\ UNCHANGED <<cfg, lf, tc, its, submaps, refs, abs, evals, recent>>

try_get_mut_body(t) ==
  /\ pc[t] = "try_get_mut_body"
  /\ TryLookup(t, "unique")
  /\ UNCHANGED <<cfg, lf, tc, its, submaps, abs, expect, evals, recent>>

(* ----------------------- try_get_with_timeout -------------------------- *)
\* try_read_for(timeout): the caller waits; the lock is granted as soon as it
\* can be, and the wait is given up (None) only while it cannot.
try_get_with_timeout_call(t, k) ==
  /\ Enter(t, Call("try_get_with_timeout", k, NoVal, mapi_of(k)), "try_get_with_timeout_wait")
  /\ expect' = [expect EXCEPT ![t] = NoRet]
  /\ UNCHANGED <<cfg, lf, tc, its, submaps, lock, local, refs, abs, evals, recent>>

try_get_with_timeout_lock(t) ==
  /\ pc[t] = "try_get_with_timeout_wait"
  /\ LockRead(t, op[t].mapi)
  /\ Goto(t, "try_get_with_timeout_body")
  /\ expect' = [expect EXCEPT ![t] =
                  AbsLookup("try_get_with_timeout", "Ok", "InvalidKey", op[t].key)]
  /\ UNCHANGED <<cfg, lf, tc, its, submaps, op, refs, abs, fcalls, evals, recent>>

\* variant: a wait that is given up reports WouldBlock
try_get_with_timeout_expire_wb(t) ==
  /\ pc[t] = "try_get_with_timeout_wait"
  /\ ~CanRead(lock[op[t].mapi])
  /\ Return(t, Ret("try_get_with_timeout", "WouldBlock", op[t].key, NoVal))
  /\ UNCHANGED <<cfg, lf, tc, its, submaps, lock, local, refs, abs, expect, evals, recent>>

\* try_read_for(timeout) is None: Err(DidNotResolve)
try_get_with_timeout_expire(t) ==
  /\ pc[t] = "try_get_with_timeout_wait"
  /\ ~CanRead(lock[op[t].mapi])
  /\ Return(t, Ret("try_get_with_timeout", "DidNotResolve", op[t].key, NoVal))
  /\ UNCHANGED <<cfg, lf, tc, its, submaps, lock, local, refs, abs, expect, evals, recent>>

try_get_with_timeout_body(t) ==
  /\ pc[t] = "try_get_with_timeout_body"
  /\ Lookup(t, "shared", "Ok", "InvalidKey")
  /\ UNCHANGED <<cfg, lf, tc, its, submaps, abs, expect, evals, recent>>

(* --------------------- try_get_mut_with_timeout ------------------------ *)
try_get_mut_with_timeout_call(t, k) ==
  /\ Enter(t, Call("try_get_mut_with_timeout", k, NoVal, mapi_of(k)),
           "try_get_mut_with_timeout_wait")
  /\ expect' = [expect EXCEPT ![t] = NoRet]
  /\ UNCHANGED <<cfg, lf, tc, its, submaps, lock, local, refs, abs, evals, recent>>

try_get_mut_with_timeout_lock(t) ==
  /\ pc[t] = "try_get_mut_with_timeout_wait"
  /\ LockWrite(t, op[t].mapi)
  /\ Goto(t, "try_get_mut_with_timeout_body")
  /\ expect' = [expect EXCEPT ![t] =
                  AbsLookup("try_get_mut_with_timeout", "Ok", "InvalidKey", op[t].key)]
  /\ UNCHANGED <<cfg, lf, tc, its, submaps, op, refs, abs, fcalls, evals, recent>>

try_get_mut_with_timeout_expire(t) ==
  /\ pc[t] = "try_get_mut_with_timeout_wait"
  /\ ~CanWrite(lock[op[t].mapi])
  /\ Return(t, Ret("try_get_mut_with_timeout", "DidNotResolve", op[t].key, NoVal))
  /\ UNCHANGED <<cfg, lf, tc, its, submaps, lock, local, refs, abs, expect, evals, recent>>

try_get_mut_with_timeout_body(t) ==
  /\ pc[t] = "try_get_mut_with_timeout_body"
  /\ Lookup(t, "unique", "Ok", "InvalidKey")
  /\ UNCHANGED <<cfg, lf, tc, its, submaps, abs, expect, evals, recent>>

(* --------------------- get_or_insert / _with --------------------------- *)
\* First section: the read lock and the contains_key check.
get_or_insert_read(t, k, v) ==
  /\ Enter(t, Call("get_or_insert", k, v, mapi_of(k)), "get_or_insert_check")
  /\ LockRead(t, mapi_of(k))
  /\ expect' = [expect EXCEPT ![t] = AbsLookup("get_or_insert", "Shared", "retry", k)]
  /\ UNCHANGED <<cfg, lf, tc, its, submaps, refs, abs, evals, recent>>

get_or_insert_with_read(t, k, v) ==
  /\ Enter(t, Call("get_or_insert_with", k, v, mapi_of(k)), "get_or_insert_check")
  /\ LockRead(t, mapi_of(k))
  /\ expect' = [expect EXCEPT ![t] = AbsLookup("get_or_insert_with", "Shared", "retry", k)]
  /\ UNCHANGED <<cfg, lf, tc, its, submaps, refs, abs, evals, recent>>

\* present: Shared(DashMapRef) is returned; absent: the read guard is dropped at
\* the end of the block and the call goes on to take the write lock
get_or_insert_check(t) ==
  /\ pc[t] = "get_or_insert_check"
  /\ LET tb == submaps[local[t].mapi]
         k == op[t].key
     IN IF table_contains_key(tb, k)
          THEN /\ MoveLocal(t, "shared")
               /\ Return(t, Ret(op[t].name, "Shared", k, tb[k]))
          ELSE /\ DropLocal(t)
               /\ Goto(t, "get_or_insert_relock")
               /\ UNCHANGED <<op, refs, fcalls>>
  /\ UNCHANGED <<cfg, lf, tc, its, submaps, abs, expect, evals, recent>>

\* Second section: the write lock is taken
get_or_insert_relock(t) ==
  /\ pc[t] = "get_or_insert_relock"
  /\ LockWrite(t, op[t].mapi)
  /\ Goto(t, "get_or_insert_store")
  /\ abs' = [abs EXCEPT ![op[t].key] = IF @ = NoVal THEN op[t].val ELSE @]
  /\ expect' = [expect EXCEPT ![t] =
        Ret(op[t].name, IF abs[op[t].key] = NoVal THEN "Stored" ELSE "Found", op[t].key,
            IF abs[op[t].key] = NoVal THEN op[t].val ELSE abs[op[t].key])]
  /\ UNCHANGED <<cfg, lf, tc, its, submaps, op, refs, fcalls, evals, recent>>

\* variant: the default is stored without the second contains_key check
get_or_insert_store_blind(t) ==
  /\ pc[t] = "get_or_insert_store"
  /\ LET s == local[t].mapi
         k == op[t].key
         tb == table_insert(submaps[s], k, op[t].val)
     IN /\ submaps' = [submaps EXCEPT ![s] = tb]
        /\ MoveLocal(t, "unique")
        /\ pc' = [pc EXCEPT ![t] = "idle"]
        /\ op' = [op EXCEPT ![t] = NoOp]
        /\ ret' = [ret EXCEPT ![t] = Ret(op[t].name, "Unique", k, tb[k])]
        /\ Record(t, op[t], Ret(op[t].name, "Unique", k, tb[k]), snap[t])
        /\ fcalls' = [fcalls EXCEPT ![t] =
                        IF op[t].name = "get_or_insert_with" THEN @ + 1 ELSE @]
        /\ SetRecent([recent EXCEPT ![k] = Other])
  /\ UNCHANGED <<cfg, lf, tc, its, calls, snap, abs, expect, evals>>

\* if !submap.contains_key(key) { submap.insert(key.clone(), default) }, where
\* get_or_insert_with evaluates default() in that branch only; Unique is returned
get_or_insert_store(t) ==
  /\ pc[t] = "get_or_insert_store"
  /\ LET s == local[t].mapi
         k == op[t].key
         absent == ~table_contains_key(submaps[s], k)
         tb == IF absent THEN table_insert(submaps[s], k, op[t].val) ELSE submaps[s]
     IN /\ submaps' = [submaps EXCEPT ![s] = tb]
        /\ MoveLocal(t, "unique")
        /\ pc' = [pc EXCEPT ![t] = "idle"]
        /\ op' = [op EXCEPT ![t] = NoOp]
        /\ ret' = [ret EXCEPT ![t] = Ret(op[t].name, "Unique", k, tb[k])]
        /\ Record(t, op[t], Ret(op[t].name, "Unique", k, tb[k]), snap[t])
        /\ fcalls' = [fcalls EXCEPT ![t] =
                        IF absent /\ op[t].name = "get_or_insert_with" THEN @ + 1 ELSE @]
        /\ SetRecent([recent EXCEPT ![k] = Other])
  /\ UNCHANGED <<cfg, lf, tc, its, calls, snap, abs, expect, evals>>

(* ----------------------------- len / is_empty -------------------------- *)
\* self.submaps.iter().map(|s| s.read().len()).sum(): one shard at a time, the
\* read guard is a temporary of the closure
len_call(t) ==
  /\ Enter(t, Call("len", NoKey, NoVal, NoShard), "len_lock")
  /\ expect' = [expect EXCEPT ![t] = Ret("len", "usize", NoKey, 0)]
  /\ UNCHANGED <<cfg, lf, tc, its, submaps, lock, local, refs, abs, evals, recent>>

\* self.len() == 0
is_empty_call(t) ==
  /\ Enter(t, Call("is_empty", NoKey, NoVal, NoShard), "len_lock")
  /\ expect' = [expect EXCEPT ![t] = Ret("is_empty", "usize", NoKey, 0)]
  /\ UNCHANGED <<cfg, lf, tc, its, submaps, lock, local, refs, abs, evals, recent>>

len_lock(t) ==
  /\ pc[t] = "len_lock"
  /\ LockRead(t, op[t].i)
  /\ Goto(t, "len_body")
  /\ expect' = [expect EXCEPT ![t].val =
                  @ + Cardinality({k \in KeysOf(op[t].i) : abs[k] # NoVal})]
  /\ UNCHANGED <<cfg, lf, tc, its, submaps, op, refs, abs, fcalls, evals, recent>>

\* variant: the sum restarts at every shard
len_body_last(t) ==
  /\ pc[t] = "len_body"
  /\ DropLocal(t)
  /\ LET sum == table_len(submaps[local[t].mapi])
     IN IF op[t].i + 1 = ncm(ncb)
          THEN Return(t, IF op[t].name = "len"
                           THEN Ret("len", "usize", NoKey, sum)
                           ELSE Ret("is_empty", IF sum = 0 THEN "true" ELSE "false",
                                    NoKey, NoVal))
          ELSE /\ Goto(t, "len_lock")
               /\ op' = [op EXCEPT ![t].i = @ + 1, ![t].acc = sum]
               /\ UNCHANGED fcalls
  /\ UNCHANGED <<cfg, lf, tc, its, submaps, refs, abs, expect, evals, recent>>

\* |s| s.read().len(), summed: the guard is dropped at the end of the closure
len_body(t) ==
  /\ pc[t] = "len_body"
  /\ DropLocal(t)
  /\ LET sum == op[t].acc + table_len(submaps[local[t].mapi])
     IN IF op[t].i + 1 = ncm(ncb)
          THEN Return(t, IF op[t].name = "len"
                           THEN Ret("len", "usize", NoKey, sum)
                           ELSE Ret("is_empty", IF sum = 0 THEN "true" ELSE "false",
                                    NoKey, NoVal))
          ELSE /\ Goto(t, "len_lock")
               /\ op' = [op EXCEPT ![t].i = @ + 1, ![t].acc = sum]
               /\ UNCHANGED fcalls
  /\ UNCHANGED <<cfg, lf, tc, its, submaps, refs, abs, expect, evals, recent>>

(* ------------------------------- clear --------------------------------- *)
\* self.submaps.iter().for_each(|locked| { locked.write().clear() })
clear_call(t) ==
  /\ Enter(t, Call("clear", NoKey, NoVal, NoShard), "clear_lock")
  /\ expect' = [expect EXCEPT ![t] = Ret("clear", "unit", NoKey, NoVal)]
  /\ UNCHANGED <<cfg, lf, tc, its, submaps, lock, local, refs, abs, evals, recent>>

clear_lock(t) ==
  /\ pc[t] = "clear_lock"
  /\ LockWrite(t, op[t].i)
  /\ Goto(t, "clear_body")
  /\ abs' = [k \in Keys |-> IF k \in KeysOf(op[t].i) THEN NoVal ELSE abs[k]]
  /\ UNCHANGED <<cfg, lf, tc, its, submaps, op, refs, expect, fcalls, evals, recent>>

\* variant: every second shard is left as it is
clear_body_short(t) ==
  /\ pc[t] = "clear_body"
  /\ submaps' = [submaps EXCEPT ![local[t].mapi] =
                   IF op[t].i % 2 = 1 THEN @ ELSE EmptyTable]
  /\ DropLocal(t)
  /\ SetRecent([k \in Keys |-> IF k \in KeysOf(local[t].mapi) THEN Other ELSE recent[k]])
  /\ IF op[t].i + 1 = ncm(ncb)
       THEN Return(t, Ret("clear", "unit", NoKey, NoVal))
       ELSE /\ Goto(t, "clear_lock")
            /\ op' = [op EXCEPT ![t].i = @ + 1]
            /\ UNCHANGED fcalls
  /\ UNCHANGED <<cfg, lf, tc, its, refs, abs, expect, evals>>

clear_body(t) ==
  /\ pc[t] = "clear_body"
  /\ submaps' = [submaps EXCEPT ![local[t].mapi] = EmptyTable]
  /\ DropLocal(t)
  /\ SetRecent([k \in Keys |-> IF k \in KeysOf(local[t].mapi) THEN Other ELSE recent[k]])
  /\ IF op[t].i + 1 = ncm(ncb)
       THEN Return(t, Ret("clear", "unit", NoKey, NoVal))
       ELSE /\ Goto(t, "clear_lock")
            /\ op' = [op EXCEPT ![t].i = @ + 1]
            /\ UNCHANGED fcalls
  /\ UNCHANGED <<cfg, lf, tc, its, refs, abs, expect, evals>>

(* ------------------------------- retain -------------------------------- *)
\* HashMap::retain(f): every entry is handed to f once; it stays, with the value
\* f left in it, iff f returned true
table_retain(tb, p) ==
  [k \in Keys |-> IF tb[k] # NoVal /\ pred_keep(p, k, tb[k])
                    THEN pred_value(p, k, tb[k]) ELSE NoVal]

\* self.submaps.iter().for_each(|locked| { locked.write().retain(f.clone()) })
retain_call(t, p) ==
  /\ Enter(t, [Call("retain", NoKey, NoVal, NoShard) EXCEPT !.p = p], "retain_lock")
  /\ expect' = [expect EXCEPT ![t] = Ret("retain", "unit", NoKey, NoVal)]
  /\ evals' = [evals EXCEPT ![t] = [k \in Keys |-> 0]]
  /\ UNCHANGED <<cfg, lf, tc, its, submaps, lock, local, refs, abs, recent>>

retain_lock(t) ==
  /\ pc[t] = "retain_lock"
  /\ LockWrite(t, op[t].i)
  /\ Goto(t, "retain_body")
  /\ abs' = [k \in Keys |->
               IF k \notin KeysOf(op[t].i) THEN abs[k]
               ELSE IF abs[k] # NoVal /\ pred_keep(op[t].p, k, abs[k])
                      THEN pred_value(op[t].p, k, abs[k]) ELSE NoVal]
  /\ UNCHANGED <<cfg, lf, tc, its, submaps, op, refs, expect, fcalls, evals, recent>>

\* variant: the entries that pass are kept with the values they had
retain_body_stale(t) ==
  /\ pc[t] = "retain_body"
  /\ submaps' = [submaps EXCEPT ![local[t].mapi] =
                   [k \in Keys |-> IF @[k] # NoVal /\ pred_keep(op[t].p, k, @[k])
                                     THEN @[k] ELSE NoVal]]
  /\ evals' = [evals EXCEPT ![t] =
                 [k \in Keys |-> IF submaps[local[t].mapi][k] # NoVal THEN @[k] + 1 ELSE @[k]]]
  /\ DropLocal(t)
  /\ SetRecent([k \in Keys |-> IF k \in KeysOf(local[t].mapi) THEN Other ELSE recent[k]])
  /\ IF op[t].i + 1 = ncm(ncb)
       THEN Return(t, Ret("retain", "unit", NoKey, NoVal))
       ELSE /\ Goto(t, "retain_lock")
            /\ op' = [op EXCEPT ![t].i = @ + 1]
            /\ UNCHANGED fcalls
  /\ UNCHANGED <<cfg, lf, tc, its, refs, abs, expect>>

retain_body(t) ==
  /\ pc[t] = "retain_body"
  /\ submaps' = [submaps EXCEPT ![local[t].mapi] = table_retain(@, op[t].p)]
  /\ evals' = [evals EXCEPT ![t] =
                 [k \in Keys |-> IF submaps[local[t].mapi][k] # NoVal THEN @[k] + 1 ELSE @[k]]]
  /\ DropLocal(t)
  /\ SetRecent([k \in Keys |-> IF k \in KeysOf(local[t].mapi) THEN Other ELSE recent[k]])
  /\ IF op[t].i + 1 = ncm(ncb)
       THEN Return(t, Ret("retain", "unit", NoKey, NoVal))
       ELSE /\ Goto(t, "retain_lock")
            /\ op' = [op EXCEPT ![t].i = @ + 1]
            /\ UNCHANGED fcalls
  /\ UNCHANGED <<cfg, lf, tc, its, refs, abs, expect>>

(* ------------------------------- alter --------------------------------- *)
\* The closures handed to alter: f((k, v)) stores v * mul + add in the value it
\* was handed (&mut V).
Alts == [mul : 1..2, add : 0..1]
alter_value(a, k, v) == v * a.mul + a.add

\* ChunkMut::iter_mut().for_each(f): every entry is handed to f once
table_alter(tb, a) ==
  [k \in Keys |-> IF tb[k] # NoVal THEN alter_value(a, k, tb[k]) ELSE NoVal]

\* self.chunks_write().for_each(|mut t| t.iter_mut().for_each(f.clone()))
alter_call(t, a) ==
  /\ Enter(t, [Call("alter", NoKey, NoVal, NoShard) EXCEPT !.p = a], "alter_lock")
  /\ expect' = [expect EXCEPT ![t] = Ret("alter", "unit", NoKey, NoVal)]
  /\ evals' = [evals EXCEPT ![t] = [k \in Keys |-> 0]]
  /\ UNCHANGED <<cfg, lf, tc, its, submaps, lock, local, refs, abs, recent>>

\* variant: the chunk before is still alive when the next is made (the chunks
\* are collected before they are worked on)
alter_lock_keep(t) ==
  /\ pc[t] = "alter_lock"
  /\ op[t].i \in DOMAIN lock
  /\ CanWrite(lock[op[t].i])
  /\ lock' = [s \in DOMAIN lock |-> IF s \in {op[t].i - 1, op[t].i} THEN AcqWrite(lock[s])
                                     ELSE lock[s]]
  /\ local' = [local EXCEPT ![t] = [kind |-> "write", mapi |-> op[t].i]]
  /\ Goto(t, "alter_body")
  /\ abs' = [k \in Keys |->
               IF k \in KeysOf(op[t].i) /\ abs[k] # NoVal
                 THEN alter_value(op[t].p, k, abs[k]) ELSE abs[k]]
  /\ UNCHANGED <<cfg, lf, tc, its, submaps, op, refs, expect, fcalls, evals, recent>>

\* next() of chunks_write: ChunkMut::new(t.write())
alter_lock(t) ==
  /\ pc[t] = "alter_lock"
  /\ LockWrite(t, op[t].i)
  /\ Goto(t, "alter_body")
  /\ abs' = [k \in Keys |->
               IF k \in KeysOf(op[t].i) /\ abs[k] # NoVal
                 THEN alter_value(op[t].p, k, abs[k]) ELSE abs[k]]
  /\ UNCHANGED <<cfg, lf, tc, its, submaps, op, refs, expect, fcalls, evals, recent>>

\* variant: the closure runs on copies of the values (iter() and a clone)
alter_body_copy(t) ==
  /\ pc[t] = "alter_body"
  /\ submaps' = submaps
  /\ evals' = [evals EXCEPT ![t] =
                 [k \in Keys |-> IF submaps[local[t].mapi][k] # NoVal THEN @[k] + 1 ELSE @[k]]]
  /\ DropLocal(t)
  /\ SetRecent([k \in Keys |-> IF k \in KeysOf(local[t].mapi) THEN Other ELSE recent[k]])
  /\ IF op[t].i + 1 = ncm(ncb)
       THEN Return(t, Ret("alter", "unit", NoKey, NoVal))
       ELSE /\ Goto(t, "alter_lock")
            /\ op' = [op EXCEPT ![t].i = @ + 1]
            /\ UNCHANGED fcalls
  /\ UNCHANGED <<cfg, lf, tc, its, refs, abs, expect>>

\* the closure of for_each: f runs over the entries of the chunk, whose guard
\* is dropped when the closure returns
alter_body(t) ==
  /\ pc[t] = "alter_body"
  /\ submaps' = [submaps EXCEPT ![local[t].mapi] = table_alter(@, op[t].p)]
  /\ evals' = [evals EXCEPT ![t] =
                 [k \in Keys |-> IF submaps[local[t].mapi][k] # NoVal THEN @[k] + 1 ELSE @[k]]]
  /\ DropLocal(t)
  /\ SetRecent([k \in Keys |-> IF k \in KeysOf(local[t].mapi) THEN Other ELSE recent[k]])
  /\ IF op[t].i + 1 = ncm(ncb)
       THEN Return(t, Ret("alter", "unit", NoKey, NoVal))
       ELSE /\ Goto(t, "alter_lock")
            /\ op' = [op EXCEPT ![t].i = @ + 1]
            /\ UNCHANGED fcalls
  /\ UNCHANGED <<cfg, lf, tc, its, refs, abs, expect>>

(* ---------------------------- construction ----------------------------- *)
\* the values num_chunks_log_2: u8 takes, up to and beyond the word width
Bits == 0..(ptr_size_bits + 1)

\* 1 << n on a signed word of w bits, n < w: the bit pattern read as two's
\* complement
shl_signed(w, n) == IF Pow2(n) > Pow2(w - 1) - 1 THEN Pow2(n) - Pow2(w) ELSE Pow2(n)

\* no map has been constructed yet
Unbuilt ==
  /\ ncb = 0
  /\ hash_nonce = 0
  /\ submaps = <<>>
  /\ lock = <<>>

\* Self { ncb, submaps: (0..ncm).map(..).collect(), hash_nonce: rand::random() }:
\* the range 0..ncm is empty when ncm <= 0
build(t, name, bits, count, nonce) ==
  /\ ncb' = bits
  /\ hash_nonce' = nonce
  /\ submaps' = [s \in 0..(count - 1) |-> EmptyTable]
  /\ lock' = [s \in 0..(count - 1) |-> Unlocked]
  /\ ret' = [ret EXCEPT ![t] = Ret(name, "Self", NoKey, bits)]
  /\ UNCHANGED pc

\* the constructor panics: there is no map, the thread is gone
build_panic(t, name, bits) ==
  /\ pc' = [pc EXCEPT ![t] = "panicked"]
  /\ ret' = [ret EXCEPT ![t] = Ret(name, "panic", NoKey, bits)]
  /\ UNCHANGED <<ncb, hash_nonce, submaps, lock>>

\* DashMap::new: let ncm = 1 << num_chunks_log_2 as usize; nothing fixes the
\* type of the literal, so ncm is an i32.  A shift by i32::BITS or more panics
\* with overflow checks and is taken modulo i32::BITS without.
new_call(t, bits, nonce) ==
  /\ pc[t] = "idle"
  /\ calls = 0
  /\ calls' = 1
  /\ IF bits >= i32_bits /\ overflow_checks
       THEN build_panic(t, "new", bits)
       ELSE build(t, "new", bits, shl_signed(i32_bits, bits % i32_bits), nonce)
  /\ UNCHANGED <<overflow_checks, track, pools, hl, tc, lf, its, op, local, refs, abs, expect, fcalls, evals,
                 recent, snap, last, prev>>

\* DashMap::with_capacity: let cpm = capacity / ncm makes ncm a usize.  Vec
\* panics with "capacity overflow" when asked for more than isize::MAX bytes.
with_capacity_call(t, bits, capacity, nonce) ==
  /\ pc[t] = "idle"
  /\ calls = 0
  /\ calls' = 1
  /\ IF bits >= ptr_size_bits /\ overflow_checks
       THEN build_panic(t, "with_capacity", bits)
       ELSE LET count == Pow2(bits % ptr_size_bits)
                cpm == capacity \div count
            IN IF count > isize_MAX
                 THEN build_panic(t, "with_capacity", bits)
                 ELSE build(t, "with_capacity", bits, count, nonce)
  /\ UNCHANGED <<overflow_checks, track, pools, hl, tc, lf, its, op, local, refs, abs, expect, fcalls, evals,
                 recent, snap, last, prev>>

\* a map exists
Built == calls > 0 /\ \A t \in Threads : pc[t] # "panicked"

\* let mapi = self.determine_map(key); self.submaps.get_unchecked(mapi) of a
\* keyed operation when determine_map panics on its shift, or returns an index
\* past the end of submaps: get_unchecked is then undefined behaviour (the
\* call faults or goes on with what it finds there)
determine_map_fault(t, name, k) ==
  /\ Built
  /\ mapi_of(k) \notin DOMAIN lock
  /\ IF mapi_of(k) = Overflow
       THEN Bounce(t, Call(name, k, NoVal, NoShard), Ret(name, "panic", k, NoVal))
       ELSE \E v \in Values \cup {NoVal} :
              Bounce(t, Call(name, k, NoVal, NoShard), Ret(name, "ub", k, v))
  /\ UNCHANGED <<cfg, lf, tc, its, submaps, lock, local, refs, abs, expect, evals, recent>>

(* ------------------------ guarded references --------------------------- *)
\* Drop of a DashMapRef / DashMapRefMut / Chunk / ChunkMut: the owned lock
\* guard is released
drop_ref(t, g) ==
  /\ pc[t] = "idle"
  /\ BagIn(g, refs[t])
  /\ g.kind \in {"shared", "unique", "chunk", "chunk_mut"}
  /\ refs' = [refs EXCEPT ![t] = @ (-) SetToBag({g})]
  /\ lock' = [lock EXCEPT ![g.mapi] =
                IF g.kind \in {"unique", "chunk_mut"} THEN RelWrite(@) ELSE RelRead(@)]
  /\ UNCHANGED <<cfg, lf, tc, its, submaps, pc, op, local, ret, calls, abs, expect, fcalls, evals,
                 recent, snap, last, prev>>

\* DerefMut of a DashMapRefMut: the holder stores a new value in place
deref_mut(t, g, v) ==
  /\ pc[t] = "idle"
  /\ BagIn(g, refs[t])
  /\ g.kind = "unique"
  /\ submaps[g.mapi][g.key] # v
  /\ submaps' = [submaps EXCEPT ![g.mapi][g.key] = v]
  /\ abs' = [abs EXCEPT ![g.key] = v]
  /\ SetRecent([recent EXCEPT ![g.key] = Other])
  /\ Record(t, Call("deref_mut", g.key, v, g.mapi), NoRet, submaps)
  /\ UNCHANGED <<cfg, lf, tc, its, lock, pc, op, local, refs, ret, calls, expect, fcalls, evals, snap>>

HeldRefs(t) == BagToSet(refs[t])

(* -------------------------------- iter --------------------------------- *)
\* Iter::new(self): no lock is taken
iter_call(t) ==
  /\ ~iters[t].live
  /\ Bounce(t, Call("iter", NoKey, NoVal, NoShard), Ret("iter", "Iter", NoKey, NoVal))
  /\ iters' = [iters EXCEPT ![t] = [NoIter EXCEPT !.gen = iters[t].gen + 1, !.live = TRUE,
                                                   !.pre = IF track # "off" THEN submaps ELSE @]]
  /\ expect' = [expect EXCEPT ![t] = NoRet]
  /\ UNCHANGED <<cfg, lf, tc, chs, submaps, lock, local, refs, abs, evals, recent>>

\* holders of the Arc<RwLockReadGuard> that iterator gen of thread t made for
\* shard s: the iterator's c_iter and the DashMapIterRefs cloned from it
ArcRefs(rs, gen, s) ==
  LET hs == {g \in BagToSet(rs) : g.kind = "iterref" /\ g.gen = gen /\ g.mapi = s}
  IN IF hs = {} THEN 0 ELSE BagCardinality([g \in hs |-> rs[g]])
ArcHeldByIter(it, gen, s) == it.live /\ it.gen = gen /\ it.c_mapi = s
ArcCount(it, rs, gen, s) == ArcRefs(rs, gen, s) + (IF ArcHeldByIter(it, gen, s) THEN 1 ELSE 0)

\* the lock after one holder of that Arc is gone: the read guard inside is
\* dropped with the last holder
ArcRelease(lk, it, rs, gen, s) ==
  IF s # NoShard /\ ArcCount(it, rs, gen, s) = 0
    THEN [lk EXCEPT ![s] = RelRead(@)] ELSE lk

\* variant: the entry is looked at and the table iterator is not advanced
iter_yield_peek(t, k) ==
  /\ pc[t] \in {"idle", "iter_resume"}
  /\ iters[t].live
  /\ k \in iters[t].todo
  /\ iters' = [iters EXCEPT ![t].todo = @,
                            ![t].seen[k] = IF track # "off" THEN @ + 1 ELSE @,
                            ![t].quiet = IF track # "off" THEN @ /\ submaps = iters[t].pre
                                                          ELSE @]
  /\ refs' = [refs EXCEPT ![t] =
                @ (+) SetToBag({[kind |-> "iterref", mapi |-> iters[t].c_mapi, key |-> k,
                                 gen |-> iters[t].gen]})]
  /\ pc' = [pc EXCEPT ![t] = "idle"]
  /\ ret' = [ret EXCEPT ![t] = Ret("next", "Some", k, submaps[iters[t].c_mapi][k])]
  /\ UNCHANGED <<cfg, lf, tc, chs, submaps, lock, op, local, calls, abs, expect, fcalls, evals,
                 recent, snap, last, prev>>

\* next(), fast path: c_iter.1.next() is Some(i): the guard is cloned into the
\* DashMapIterRef.  hashbrown's order is any order.
iter_yield(t, k) ==
  /\ pc[t] \in {"idle", "iter_resume"}
  /\ iters[t].live
  /\ k \in iters[t].todo
  /\ iters' = [iters EXCEPT ![t].todo = @ \ {k},
                            ![t].seen[k] = IF track # "off" THEN @ + 1 ELSE @,
                            ![t].quiet = IF track # "off" THEN @ /\ submaps = iters[t].pre
                                                          ELSE @]
  /\ refs' = [refs EXCEPT ![t] =
                @ (+) SetToBag({[kind |-> "iterref", mapi |-> iters[t].c_mapi, key |-> k,
                                 gen |-> iters[t].gen]})]
  /\ pc' = [pc EXCEPT ![t] = "idle"]
  /\ ret' = [ret EXCEPT ![t] = Ret("next", "Some", k, submaps[iters[t].c_mapi][k])]
  /\ UNCHANGED <<cfg, lf, tc, chs, submaps, lock, op, local, calls, abs, expect, fcalls, evals,
                 recent, snap, last, prev>>

\* slow_path_new_chunk: c_map_index < submaps.len(); guard = Arc::new(
\* self.map.submaps[self.c_map_index].read()): the read lock of the next shard
\* is taken while c_iter still holds the Arc of the shard before
slow_path_new_chunk(t) ==
  /\ pc[t] \in {"idle", "iter_resume"}
  /\ iters[t].live
  /\ iters[t].todo = {}
  /\ iters[t].c_map_index < ncm(ncb)
  /\ LockRead(t, iters[t].c_map_index)
  /\ pc' = [pc EXCEPT ![t] = "iter_replace"]
  /\ UNCHANGED <<cfg, lf, tc, its, submaps, op, refs, ret, calls, abs, expect, fcalls, evals,
                 recent, snap, last, prev>>

\* variant: the previous Arc is leaked when c_iter is replaced
iter_advance_leak(t) ==
  /\ pc[t] = "iter_replace"
  /\ LET s == iters[t].c_map_index
         it == [iters[t] EXCEPT !.c_mapi = s, !.c_map_index = s + 1,
                                !.todo = {k \in Keys : submaps[s][k] # NoVal},
                                !.due = IF track # "off"
                                          THEN @ \cup {k \in Keys : submaps[s][k] # NoVal}
                                          ELSE @,
                                !.quiet = IF track # "off" THEN @ /\ submaps = iters[t].pre
                                                             ELSE @]
     IN /\ iters' = [iters EXCEPT ![t] = it]
        /\ UNCHANGED lock
  /\ local' = [local EXCEPT ![t] = NoGuard]
  /\ pc' = [pc EXCEPT ![t] = "iter_resume"]
  /\ UNCHANGED <<cfg, lf, tc, chs, submaps, op, refs, ret, calls, abs, expect, fcalls, evals,
                 recent, snap, last, prev>>

\* std::mem::replace(&mut self.c_iter, Some((guard, iter))): the previous Arc
\* loses the iterator as a holder; c_map_index is advanced and next() is
\* re-entered
iter_advance(t) ==
  /\ pc[t] = "iter_replace"
  /\ LET s == iters[t].c_map_index
         it == [iters[t] EXCEPT !.c_mapi = s, !.c_map_index = s + 1,
                                !.todo = {k \in Keys : submaps[s][k] # NoVal},
                                !.due = IF track # "off"
                                          THEN @ \cup {k \in Keys : submaps[s][k] # NoVal}
                                          ELSE @,
                                !.quiet = IF track # "off" THEN @ /\ submaps = iters[t].pre
                                                             ELSE @]
     IN /\ iters' = [iters EXCEPT ![t] = it]
        /\ lock' = ArcRelease(lock, it, refs[t], iters[t].gen, iters[t].c_mapi)
  /\ local' = [local EXCEPT ![t] = NoGuard]
  /\ pc' = [pc EXCEPT ![t] = "iter_resume"]
  /\ UNCHANGED <<cfg, lf, tc, chs, submaps, op, refs, ret, calls, abs, expect, fcalls, evals,
                 recent, snap, last, prev>>

\* slow_path_new_chunk with c_map_index == submaps.len(): None; c_iter is kept
iter_end(t) ==
  /\ pc[t] \in {"idle", "iter_resume"}
  /\ iters[t].live
  /\ iters[t].todo = {}
  /\ iters[t].c_map_index = ncm(ncb)
  /\ pc' = [pc EXCEPT ![t] = "idle"]
  /\ ret' = [ret EXCEPT ![t] = Ret("next", "None", NoKey, NoVal)]
  /\ UNCHANGED <<cfg, lf, tc, its, submaps, lock, op, local, refs, calls, abs, expect, fcalls,
                 evals, recent, snap, last, prev>>

\* the Iter is dropped, and with it its clone of the current Arc
iter_drop(t) ==
  /\ pc[t] = "idle"
  /\ iters[t].live
  /\ iters' = [iters EXCEPT ![t].live = FALSE, ![t].todo = {}]
  /\ lock' = ArcRelease(lock, iters'[t], refs[t], iters[t].gen, iters[t].c_mapi)
  /\ UNCHANGED <<cfg, lf, tc, chs, submaps, pc, op, local, refs, ret, calls, abs, expect, fcalls,
                 evals, recent, snap, last, prev>>

\* variant: every reference releases the read lock when it is dropped
drop_iter_ref_own(t, g) ==
  /\ pc[t] = "idle"
  /\ BagIn(g, refs[t])
  /\ g.kind = "iterref"
  /\ refs' = [refs EXCEPT ![t] = @ (-) SetToBag({g})]
  /\ lock' = [lock EXCEPT ![g.mapi] = RelRead(@)]
  /\ UNCHANGED <<cfg, lf, tc, its, submaps, pc, op, local, ret, calls, abs, expect, fcalls, evals,
                 recent, snap, last, prev>>

\* Drop for DashMapIterRef: self.guard.take()
drop_iter_ref(t, g) ==
  /\ pc[t] = "idle"
  /\ BagIn(g, refs[t])
  /\ g.kind = "iterref"
  /\ refs' = [refs EXCEPT ![t] = @ (-) SetToBag({g})]
  /\ lock' = ArcRelease(lock, iters[t], refs'[t], g.gen, g.mapi)
  /\ UNCHANGED <<cfg, lf, tc, its, submaps, pc, op, local, ret, calls, abs, expect, fcalls, evals,
                 recent, snap, last, prev>>

(* ----------------------- chunks / chunks_write ------------------------- *)
\* self.submaps.iter().map(|t| Chunk::new(t.read())): a lazy iterator
chunks_call(t) ==
  /\ chs[t].kind = "none"
  /\ Bounce(t, Call("chunks", NoKey, NoVal, NoShard), Ret("chunks", "Iter", NoKey, NoVal))
  /\ chs' = [chs EXCEPT ![t] = [kind |-> "chunk", i |-> 0, sum |-> 0]]
  /\ expect' = [expect EXCEPT ![t] = NoRet]
  /\ UNCHANGED <<cfg, lf, tc, iters, submaps, lock, local, refs, abs, evals, recent>>

\* self.submaps.iter().map(|t| ChunkMut::new(t.write()))
chunks_write_call(t) ==
  /\ chs[t].kind = "none"
  /\ Bounce(t, Call("chunks_write", NoKey, NoVal, NoShard),
            Ret("chunks_write", "Iter", NoKey, NoVal))
  /\ chs' = [chs EXCEPT ![t] = [kind |-> "chunk_mut", i |-> 0, sum |-> 0]]
  /\ expect' = [expect EXCEPT ![t] = NoRet]
  /\ UNCHANGED <<cfg, lf, tc, iters, submaps, lock, local, refs, abs, evals, recent>>

\* next() of the map adapter: the lock of shard i is taken and its guard is
\* handed out inside a Chunk / ChunkMut.  history: sum adds up what
\* Chunk::iter().count() gives for the chunks handed out so far.
chunks_next(t) ==
  /\ pc[t] = "idle"
  /\ chs[t].kind # "none"
  /\ chs[t].i < ncm(ncb)
  /\ IF chs[t].kind = "chunk_mut"
       THEN CanWrite(lock[chs[t].i]) /\ lock' = [lock EXCEPT ![chs[t].i] = AcqWrite(@)]
       ELSE CanRead(lock[chs[t].i]) /\ lock' = [lock EXCEPT ![chs[t].i] = AcqRead(@)]
  /\ refs' = [refs EXCEPT ![t] = @ (+) SetToBag({Ref(chs[t].kind, chs[t].i, NoKey)})]
  /\ chs' = [chs EXCEPT ![t].i = @ + 1,
                        ![t].sum = IF track # "off" THEN @ + table_len(submaps[chs[t].i])
                                                    ELSE @]
  /\ ret' = [ret EXCEPT ![t] = Ret("next", chs[t].kind, NoKey, chs[t].i)]
  /\ UNCHANGED <<cfg, lf, tc, iters, submaps, pc, op, local, calls, abs, expect, fcalls, evals,
                 recent, snap, last, prev>>

\* the adapter is exhausted or dropped
chunks_drop(t) ==
  /\ pc[t] = "idle"
  /\ chs[t].kind # "none"
  /\ chs' = [chs EXCEPT ![t] = NoChunks]
  /\ UNCHANGED <<cfg, lf, tc, iters, submaps, lock, pc, op, local, refs, ret, calls, abs, expect,
                 fcalls, evals, recent, snap, last, prev>>

(* ----------------------------- TimedCache ------------------------------ *)
(* Part 2: TimedCache (src/src/timedcache.rs), a write-back cache on a     *)
(* DHashMap (src/src/dhashmap.rs, the same sharded map on parking_lot      *)
(* locks) of (value, inserted_at, clean) entries, between the callers and  *)
(* an external store reached through load_item_fn and save_item_fn.        *)

\* the clock does not run further than this
MaxTime == 3

\* the durations of the cache, in ticks of the clock
valid_duration == 2
valid_check_interval == 1
save_interval == 0

\* storage: DHashMap<K, (V, time::Instant, bool)>
Entry(v, at, clean) == [v |-> v, at |-> at, clean |-> clean]
Vacant == Entry(NoVal, 0, TRUE)
occupied(e) == e.v # NoVal
EmptyStorage == [k \in Keys |-> Vacant]

\* the keys a shard of the storage holds
cached(s) == {k \in Keys : occupied(submaps[s][k])}

\* Instant::duration_since: the time from earlier to self, zero when earlier
\* is the later one
duration_since(self, earlier) == IF self >= earlier THEN self - earlier ELSE 0

\* an external store that holds the first n keys
Stored(n) == [k \in Keys |-> IF k <= n THEN 1 + (k % NumValues) ELSE NoVal]

\* TimedCache::new: an empty storage, both timestamps are the time of
\* construction
TimedCache_new(bits, nonce) ==
  /\ ncb = bits
  /\ hash_nonce = nonce
  /\ submaps = [s \in ShardIds(bits) |-> EmptyStorage]
  /\ lock = [s \in ShardIds(bits) |-> Unlocked]
  /\ now = 0
  /\ last_saved = now
  /\ last_purged = now
  /\ mtx = [saved |-> Free, purged |-> Free]

\* time::Instant::now() returns n: the clock is monotonic, and nothing but a
\* call of now() tells how far it has moved on
Instant_now(n) ==
  /\ n \in now..MaxTime
  /\ now' = n

\* where map, map_mut and a direct caller go on when load_item has returned
after_load(name) ==
  CASE name = "map" -> "map_get"
    [] name = "map_mut" -> "map_mut_get"
    [] OTHER -> "load_item_return"

\* load_item, called directly or as the first statement of map and map_mut
\* (with the closure's store w): if !self.storage.contains_key(k), under the
\* shard's read lock, taken and released within the step
load_item_contains_key(t, name, k, w) ==
  LET s == mapi_of(k) IN
  /\ s \in DOMAIN lock
  /\ CanRead(lock[s])
  /\ Enter(t, [Call(name, k, NoVal, s) EXCEPT !.p = w],
           IF occupied(submaps[s][k]) THEN after_load(name) ELSE "load_item_fn")
  /\ UNCHANGED <<cfg, lf, tc, its, submaps, lock, local, refs, abs, expect, evals, recent>>

\* if let Some(v) = (self.load_item_fn)(k) { let v = (v, Instant::now(), true);
\* no lock is held.  On None the clock is not read.
load_item_fn(t, n) ==
  /\ pc[t] = "load_item_fn"
  /\ IF store[op[t].key] # NoVal
       THEN /\ Instant_now(n)
            /\ op' = [op EXCEPT ![t].val = store[op[t].key], ![t].inst = n]
            /\ Goto(t, "load_item_insert")
       ELSE /\ n = now
            /\ Goto(t, after_load(op[t].name))
            /\ UNCHANGED <<now, op>>
  /\ UNCHANGED <<cfg, lf, its, submaps, lock, local, refs, abs, expect, fcalls,
                 evals, recent, last_saved, last_purged, mtx, store>>

\* self.storage.insert(k.clone(), v): under the shard's write lock, taken and
\* released within the step, whatever the shard holds for k by now
load_item_insert(t) ==
  LET s == op[t].mapi
      k == op[t].key
  IN /\ pc[t] = "load_item_insert"
     /\ CanWrite(lock[s])
     /\ submaps' = [submaps EXCEPT ![s][k] = Entry(op[t].val, op[t].inst, TRUE)]
     /\ Goto(t, after_load(op[t].name))
     /\ UNCHANGED <<cfg, lf, tc, its, lock, op, local, refs, abs, expect, fcalls,
                    evals, recent>>

\* a direct call of load_item returns
load_item_return(t) ==
  /\ pc[t] = "load_item_return"
  /\ Return(t, Ret("load_item", "unit", op[t].key, NoVal))
  /\ UNCHANGED <<cfg, lf, tc, its, submaps, lock, local, refs, abs, expect, evals, recent>>

\* map: let data = self.storage.get(k).unwrap(); get returns None with the
\* read lock released, and unwrap panics
map_get(t) ==
  LET s == op[t].mapi
      k == op[t].key
  IN /\ pc[t] = "map_get"
     /\ CanRead(lock[s])
     /\ IF occupied(submaps[s][k])
          THEN /\ LockRead(t, s)
               /\ Goto(t, "map_f")
               /\ UNCHANGED <<op, fcalls>>
          ELSE /\ Return(t, Ret("map", "panic", k, NoVal))
               /\ UNCHANGED <<lock, local>>
     /\ UNCHANGED <<cfg, lf, tc, its, submaps, refs, abs, expect, evals, recent>>

\* f(&data.0): the closure reads the value, data is dropped at the return
map_f(t) ==
  /\ pc[t] = "map_f"
  /\ DropLocal(t)
  /\ Return(t, Ret("map", "T", op[t].key, submaps[op[t].mapi][op[t].key].v))
  /\ UNCHANGED <<cfg, lf, tc, its, submaps, refs, abs, expect, evals, recent>>

\* variant: get_mut returns None with the write lock still held
map_mut_get_held(t) ==
  LET s == op[t].mapi
      k == op[t].key
  IN /\ pc[t] = "map_mut_get"
     /\ LockWrite(t, s)
     /\ IF occupied(submaps[s][k])
          THEN /\ Goto(t, "map_mut_mark")
               /\ UNCHANGED <<op, fcalls>>
          ELSE Return(t, Ret("map_mut", "panic", k, NoVal))
     /\ UNCHANGED <<cfg, lf, tc, its, submaps, refs, abs, expect, evals, recent>>

\* map_mut: let mut data = self.storage.get_mut(k).unwrap(); get_mut returns
\* None with the write lock released, and unwrap panics
map_mut_get(t) ==
  LET s == op[t].mapi
      k == op[t].key
  IN /\ pc[t] = "map_mut_get"
     /\ CanWrite(lock[s])
     /\ IF occupied(submaps[s][k])
          THEN /\ LockWrite(t, s)
               /\ Goto(t, "map_mut_mark")
               /\ UNCHANGED <<op, fcalls>>
          ELSE /\ Return(t, Ret("map_mut", "panic", k, NoVal))
               /\ UNCHANGED <<lock, local>>
     /\ UNCHANGED <<cfg, lf, tc, its, submaps, refs, abs, expect, evals, recent>>

\* data.2 = false;
map_mut_mark(t) ==
  /\ pc[t] = "map_mut_mark"
  /\ submaps' = [submaps EXCEPT ![op[t].mapi][op[t].key].clean = FALSE]
  /\ Goto(t, "map_mut_f")
  /\ UNCHANGED <<cfg, lf, tc, its, lock, op, local, refs, abs, expect, fcalls,
                 evals, recent>>

\* f(&mut data.0): the closure stores op.p, data is dropped at the return
map_mut_f(t) ==
  /\ pc[t] = "map_mut_f"
  /\ submaps' = [submaps EXCEPT ![op[t].mapi][op[t].key].v = op[t].p]
  /\ DropLocal(t)
  /\ Return(t, Ret("map_mut", "T", op[t].key, op[t].p))
  /\ UNCHANGED <<cfg, lf, tc, its, refs, abs, expect, evals, recent>>

\* do_check: let now = time::Instant::now();
do_check_call(t, n) ==
  /\ Instant_now(n)
  /\ Enter(t, [Call("do_check", NoKey, NoVal, NoShard) EXCEPT !.inst = n],
           "do_check_last_saved")
  /\ evals' = [evals EXCEPT ![t] = [k \in Keys |-> 0]]
  /\ UNCHANGED <<cfg, lf, its, submaps, lock, local, refs, abs, expect, recent,
                 last_saved, last_purged, mtx, store>>

\* let mut last_saved = self.last_saved.lock();
do_check_last_saved(t) ==
  /\ pc[t] = "do_check_last_saved"
  /\ mtx.saved = Free
  /\ mtx' = [mtx EXCEPT !.saved = t]
  /\ Goto(t, "do_check_last_purged")
  /\ UNCHANGED <<cfg, lf, its, submaps, lock, op, local, refs, abs, expect, fcalls,
                 evals, recent, now, last_saved, last_purged, store>>

\* let mut last_purged = self.last_purged.lock();
do_check_last_purged(t) ==
  /\ pc[t] = "do_check_last_purged"
  /\ mtx.purged = Free
  /\ mtx' = [mtx EXCEPT !.purged = t]
  /\ Goto(t, "do_check_save")
  /\ UNCHANGED <<cfg, lf, its, submaps, lock, op, local, refs, abs, expect, fcalls,
                 evals, recent, now, last_saved, last_purged, store>>

\* variant: the two MutexGuards are dropped once the timestamp has been looked
\* at, before a shard is locked
do_check_save_brief(t) ==
  /\ pc[t] = "do_check_save"
  /\ IF duration_since(op[t].inst, last_saved) > save_interval
       THEN /\ last_saved' = op[t].inst
            /\ op' = [op EXCEPT ![t].i = 0]
            /\ Goto(t, "do_check_save_lock")
       ELSE /\ Goto(t, "do_check_purge")
            /\ UNCHANGED <<last_saved, op>>
  /\ mtx' = [saved |-> Free, purged |-> Free]
  /\ UNCHANGED <<cfg, lf, its, submaps, lock, local, refs, abs, expect, fcalls,
                 evals, recent, now, last_purged, store>>

\* if now.duration_since(*last_saved) > self.save_interval { *last_saved = now;
do_check_save(t) ==
  /\ pc[t] = "do_check_save"
  /\ IF duration_since(op[t].inst, last_saved) > save_interval
       THEN /\ last_saved' = op[t].inst
            /\ op' = [op EXCEPT ![t].i = 0]
            /\ Goto(t, "do_check_save_lock")
       ELSE /\ Goto(t, "do_check_purge")
            /\ UNCHANGED <<last_saved, op>>
  /\ UNCHANGED <<cfg, lf, its, submaps, lock, local, refs, abs, expect, fcalls,
                 evals, recent, now, last_purged, mtx, store>>

\* the loop of a pass over the shards: the next shard, or what follows the pass
do_check_loop(t, c, again, done) ==
  IF c.i + 1 < ncm(ncb)
    THEN /\ op' = [op EXCEPT ![t] = [c EXCEPT !.i = @ + 1]]
         /\ Goto(t, again)
    ELSE /\ op' = [op EXCEPT ![t] = c]
         /\ Goto(t, done)

\* self.storage.submaps_write(): the next shard is write-locked
do_check_save_lock(t) ==
  /\ pc[t] = "do_check_save_lock"
  /\ LockWrite(t, op[t].i)
  /\ Goto(t, "do_check_save_body")
  /\ UNCHANGED <<cfg, lf, tc, its, submaps, op, refs, abs, expect, fcalls, evals, recent>>

\* check_save_item on the entries of a shard, given which of the saves succeed:
\* if !v.2 && (self.save_item_fn)(k, &v.0) { v.2 = true; }
check_save_items(tb, ok) ==
  [k \in Keys |-> IF occupied(tb[k]) /\ ~tb[k].clean /\ ok[k]
                    THEN [tb[k] EXCEPT !.clean = TRUE] ELSE tb[k]]

\* the entries save_item_fn is called on (history: op.saved collects those of
\* the running do_check for which it returned true)
to_save(tb) == {k \in Keys : occupied(tb[k]) /\ ~tb[k].clean}

\* variant: a failed save marks the entry clean all the same
do_check_save_body_always(t, ok) ==
  LET s == op[t].i
      tb == submaps[s]
  IN /\ pc[t] = "do_check_save_body"
     /\ submaps' = [submaps EXCEPT ![s] = check_save_items(tb, [k \in Keys |-> TRUE])]
     /\ store' = [k \in Keys |-> IF k \in to_save(tb) /\ ok[k] THEN tb[k].v ELSE store[k]]
     /\ evals' = [evals EXCEPT ![t] =
                    [k \in Keys |-> IF k \in to_save(tb) THEN @[k] + 1 ELSE @[k]]]
     /\ DropLocal(t)
     /\ do_check_loop(t, [op[t] EXCEPT !.saved = @ \cup {k \in to_save(tb) : ok[k]}],
                      "do_check_save_lock", "do_check_purge")
     /\ UNCHANGED <<cfg, lf, its, refs, abs, expect, fcalls, recent, now, last_saved,
                    last_purged, mtx>>

\* submap.iter_mut().for_each(|(k, mut v)| check_save_item(&k, &mut v)) under
\* the write lock of the shard, which is dropped at the end of the closure;
\* ok[k] is what save_item_fn returns for k, and a save that succeeds is in
\* the external store
do_check_save_body(t, ok) ==
  LET s == op[t].i
      tb == submaps[s]
  IN /\ pc[t] = "do_check_save_body"
     /\ submaps' = [submaps EXCEPT ![s] = check_save_items(tb, ok)]
     /\ store' = [k \in Keys |-> IF k \in to_save(tb) /\ ok[k] THEN tb[k].v ELSE store[k]]
     /\ evals' = [evals EXCEPT ![t] =
                    [k \in Keys |-> IF k \in to_save(tb) THEN @[k] + 1 ELSE @[k]]]
     /\ DropLocal(t)
     /\ do_check_loop(t, [op[t] EXCEPT !.saved = @ \cup {k \in to_save(tb) : ok[k]}],
                      "do_check_save_lock", "do_check_purge")
     /\ UNCHANGED <<cfg, lf, its, refs, abs, expect, fcalls, recent, now, last_saved,
                    last_purged, mtx>>

\* variant: the purge pass runs whatever the timestamp says
do_check_purge_always(t) ==
  /\ pc[t] = "do_check_purge"
  /\ last_purged' = op[t].inst
  /\ op' = [op EXCEPT ![t].i = 0]
  /\ Goto(t, "do_check_purge_lock")
  /\ UNCHANGED <<cfg, lf, its, submaps, lock, local, refs, abs, expect, fcalls,
                 evals, recent, now, last_saved, mtx, store>>

\* if now.duration_since(*last_purged) > self.valid_check_interval {
\* *last_purged = now;
do_check_purge(t) ==
  /\ pc[t] = "do_check_purge"
  /\ IF duration_since(op[t].inst, last_purged) > valid_check_interval
       THEN /\ last_purged' = op[t].inst
            /\ op' = [op EXCEPT ![t].i = 0]
            /\ Goto(t, "do_check_purge_lock")
       ELSE /\ Goto(t, "do_check_return")
            /\ UNCHANGED <<last_purged, op>>
  /\ UNCHANGED <<cfg, lf, its, submaps, lock, local, refs, abs, expect, fcalls,
                 evals, recent, now, last_saved, mtx, store>>

\* self.storage.retain(..): let mut submap = locked.write();
do_check_purge_lock(t) ==
  /\ pc[t] = "do_check_purge_lock"
  /\ LockWrite(t, op[t].i)
  /\ Goto(t, "do_check_purge_body")
  /\ UNCHANGED <<cfg, lf, tc, its, submaps, op, refs, abs, expect, fcalls, evals, recent>>

\* variant: the age alone decides
check_to_evict_age(inst, v) ==
  duration_since(inst, v.at) > valid_duration

\* check_to_evict, with the now of the do_check that runs it:
\* now.duration_since(v.1) > self.valid_duration && v.2
check_to_evict(inst, v) ==
  duration_since(inst, v.at) > valid_duration /\ v.clean

\* submap.retain(|k, v| !check_to_evict(k, v)) under the write lock of the
\* shard, which is dropped at the end of the closure
do_check_purge_body(t) ==
  LET s == op[t].i
      tb == submaps[s]
  IN /\ pc[t] = "do_check_purge_body"
     /\ submaps' = [submaps EXCEPT ![s] =
                      [k \in Keys |-> IF occupied(tb[k]) /\ check_to_evict(op[t].inst, tb[k])
                                        THEN Vacant ELSE tb[k]]]
     /\ DropLocal(t)
     /\ do_check_loop(t, op[t], "do_check_purge_lock", "do_check_return")
     /\ UNCHANGED <<cfg, lf, tc, its, refs, abs, expect, fcalls, evals, recent>>

\* do_check returns: last_purged and last_saved, the two MutexGuards, are dropped
do_check_return(t) ==
  /\ pc[t] = "do_check_return"
  /\ mtx' = [saved |-> Free, purged |-> Free]
  /\ Return(t, Ret("do_check", "unit", NoKey, NoVal))
  /\ UNCHANGED <<cfg, lf, its, submaps, lock, local, refs, abs, expect, evals,
                 recent, now, last_saved, last_purged, store>>

(* --------------------------- ConcurrentStack --------------------------- *)
(* Part 3: ConcurrentStack (src/src/stack.rs), a Treiber stack on          *)
(* crossbeam_epoch: a call pins the epoch, and what a pinned thread hands  *)
(* to defer_unchecked runs no earlier than when every thread that was      *)
(* pinned at that moment has dropped its Guard.                            *)

\* Owned::new / Box::new: the address a new node gets.  The allocator hands
\* out the lowest free address, so that freed memory is used again at once.
fresh == CHOOSE a \in Addrs : heap[a] = FreeNode /\ \A b \in Addrs : heap[b] = FreeNode => a <= b

\* struct Node<T> { data: T, next: Atomic<Node<T>> }
Node(data, next) == [kind |-> "node", data |-> data, next |-> next]

\* the nodes linked from a pointer, as the sequence of their data; the links of
\* a stack have no cycle, the walk stops after as many nodes as there are
RECURSIVE linked(_, _)
linked(p, n) ==
  IF p = Null \/ n = 0 \/ heap[p].kind # "node" THEN <<>>
  ELSE <<heap[p].data>> \o linked(heap[p].next, n - 1)

\* epoch::pin(): the thread holds one more Guard
pin(t) == pins' = [pins EXCEPT ![t] = @ + 1]

\* the threads that are pinned
pinned == {t \in Threads : pins[t] > 0}

\* a Guard of t is dropped: once it was its last, nothing deferred waits for
\* t any more
unpin(t) ==
  /\ pins' = [pins EXCEPT ![t] = @ - 1]
  /\ deferred' = IF pins[t] = 1 THEN {[d EXCEPT !.waits = @ \ {t}] : d \in deferred}
                 ELSE deferred

\* guard.defer_unchecked(f), f destroying the node at a: it waits for the
\* threads that are pinned now
defer(t, a) ==
  deferred' = deferred \cup {[addr |-> a, by |-> t, waits |-> pinned]}

\* push: let guard = &aquire_guard(); let mut node = Owned::new(Node { data,
\* next: Atomic::null() }); the value pushed is named after the call
push_call(t) ==
  /\ \E a \in Addrs : heap[a] = FreeNode
  /\ Enter(t, [Call("push", NoKey, calls + 1, NoShard) EXCEPT !.node = fresh], "push_load")
  /\ pin(t)
  /\ heap' = [heap EXCEPT ![fresh] = Node(calls + 1, Null)]
  /\ hist' = [hist EXCEPT !.pushed = @ \cup {calls + 1}]
  /\ UNCHANGED <<cfg, tc, its, locked, head, deferred>>

\* let head = self.head.load(SeqCst, guard); node.next.store(head, SeqCst);
push_load(t) ==
  /\ pc[t] = "push_load"
  /\ op' = [op EXCEPT ![t].seen = head]
  /\ heap' = [heap EXCEPT ![op[t].node].next = head]
  /\ Goto(t, "push_cas")
  /\ UNCHANGED <<cfg, tc, its, locked, fcalls, head, pins, deferred, hist>>

\* variant: the node is stored into head whatever head holds by now
push_cas_store(t) ==
  /\ pc[t] = "push_cas"
  /\ head' = op[t].node
  /\ hist' = [hist EXCEPT !.abs = <<op[t].val>> \o @]
  /\ unpin(t)
  /\ Return(t, Ret("push", "unit", NoKey, op[t].val))
  /\ UNCHANGED <<cfg, tc, its, locked, heap>>

\* match self.head.compare_and_set(head, node, SeqCst, guard) { Ok(_) =>
\* return, Err(err) => node = err.new }: the guard is dropped at the return
push_cas(t) ==
  /\ pc[t] = "push_cas"
  /\ IF head = op[t].seen
       THEN /\ head' = op[t].node
            /\ hist' = [hist EXCEPT !.abs = <<op[t].val>> \o @]
            /\ unpin(t)
            /\ Return(t, Ret("push", "unit", NoKey, op[t].val))
       ELSE /\ Goto(t, "push_load")
            /\ UNCHANGED <<op, fcalls, head, hist, pins, deferred>>
  /\ UNCHANGED <<cfg, tc, its, locked, heap>>

\* pop: let guard = &aquire_guard();
pop_call(t) ==
  /\ Enter(t, Call("pop", NoKey, NoVal, NoShard), "pop_load")
  /\ pin(t)
  /\ UNCHANGED <<cfg, tc, its, locked, heap, head, deferred, hist>>

\* let head_ptr = self.head.load(SeqCst, guard); match head_ptr.as_ref() {
\* None => return None
pop_load(t) ==
  /\ pc[t] = "pop_load"
  /\ IF head = Null
       THEN /\ unpin(t)
            /\ Return(t, Ret("pop", "None", NoKey, NoVal))
       ELSE /\ op' = [op EXCEPT ![t].seen = head]
            /\ Goto(t, "pop_next")
            /\ UNCHANGED <<fcalls, pins, deferred>>
  /\ UNCHANGED <<cfg, tc, its, locked, heap, head, hist>>

\* Some(head) => let next = head.next.load(SeqCst, guard); a node that has
\* been freed holds whatever the memory holds now
pop_next(t) ==
  /\ pc[t] = "pop_next"
  /\ IF heap[op[t].seen].kind = "node"
       THEN /\ op' = [op EXCEPT ![t].next = heap[op[t].seen].next]
            /\ UNCHANGED hist
       ELSE /\ \E p \in Addrs \cup {Null} : op' = [op EXCEPT ![t].next = p]
            /\ hist' = [hist EXCEPT !.uaf = TRUE]
  /\ Goto(t, "pop_cas")
  /\ UNCHANGED <<cfg, tc, its, locked, fcalls, heap, head, pins, deferred>>

\* if let Ok(head_ptr) = self.head.compare_and_set(head_ptr, next, SeqCst,
\* guard) { guard.defer_unchecked(move || mem::drop(Box::from_raw(head_ptr)));
\* on Err the loop starts again
pop_cas(t) ==
  /\ pc[t] = "pop_cas"
  /\ IF head = op[t].seen
       THEN /\ head' = op[t].next
            /\ defer(t, op[t].seen)
            /\ hist' = [hist EXCEPT !.abs = IF @ = <<>> THEN @ ELSE Tail(@)]
            /\ Goto(t, "pop_read")
       ELSE /\ Goto(t, "pop_load")
            /\ UNCHANGED <<head, deferred, hist>>
  /\ UNCHANGED <<cfg, tc, its, locked, op, fcalls, heap, pins>>

\* return Some(ptr::read(&(*head).data)): the value is moved out to the caller,
\* the guard is dropped at the return
pop_read(t) ==
  /\ pc[t] = "pop_read"
  /\ IF heap[op[t].seen].kind = "node"
       THEN /\ hist' = [hist EXCEPT !.popped = Append(@, heap[op[t].seen].data)]
            /\ Return(t, Ret("pop", "Some", NoKey, heap[op[t].seen].data))
       ELSE /\ hist' = [hist EXCEPT !.uaf = TRUE]
            /\ \E v \in 1..MaxCalls : Return(t, Ret("pop", "Some", NoKey, v))
  /\ unpin(t)
  /\ UNCHANGED <<cfg, tc, its, locked, heap, head>>

\* the deferred closure of pop runs: mem::drop(Box::from_raw(head_ptr as *mut
\* Node<T>)) drops the Node, which drops its fields data and next, and frees
\* the memory
drop_node(d) ==
  /\ d \in deferred
  /\ d.waits = {}
  /\ deferred' = deferred \ {d}
  /\ IF heap[d.addr].kind = "node"
       THEN /\ hist' = [hist EXCEPT !.dropped = @ \cup {heap[d.addr].data}]
            /\ heap' = [heap EXCEPT ![d.addr] = FreeNode]
       ELSE /\ hist' = [hist EXCEPT !.dfree = TRUE]
            /\ UNCHANGED heap
  /\ UNCHANGED <<cfg, tc, its, locked, pc, op, ret, calls, fcalls, snap, last, prev,
                 head, pins>>

(* ------------------------------ NestedMap ------------------------------ *)
(* Part 4: NestedMap (src/src/nestedmap), a hash trie of Tables on          *)
(* crossbeam_epoch.  A Table is TABLE_SIZE atomic buckets and a nonce; a   *)
(* bucket is null or points to a Bucket::Leaf(Entry) or to a               *)
(* Bucket::Branch(Table).  The root Table lives in the NestedMap, the      *)
(* model keeps it at the address Root.                                     *)
(*                                                                         *)
(* UniformAllocator::alloc is taken by what its callers rely on: it hands  *)
(* out a slot that is not in use.  (SlabSegment::has_space, len -          *)
(* capacity saturating at 0, is 0 for every segment, so MemoryPool::alloc  *)
(* as written never reaches its return; the allocator is a matter of its   *)
(* own.)                                                                   *)

\* const TABLE_SIZE: usize = 32, scaled down
TABLE_SIZE == 2

\* with_two_entries nests no more Tables than this in one call
MaxDepth == 2

\* NestedMap.root, at the address the model gives it
Root == 1

Slots == 0..(TABLE_SIZE - 1)
Nonces == 0..MaxNonce

\* Bucket::Leaf(Entry { key, value })
Leaf(key, value) == [kind |-> "leaf", key |-> key, value |-> value]

\* Bucket::Branch(Table { nonce, buckets })
Table(nonce, buckets) == [kind |-> "branch", nonce |-> nonce, buckets |-> buckets]

\* Table::empty: a random nonce, buckets: Box::new(mem::zeroed())
empty(nonce) == Table(nonce, [s \in Slots |-> Null])

\* util::hash_with_nonce(key, nonce) as usize % TABLE_SIZE.  The hash is
\* seahash over the nonce and the key: two keys that share a position under
\* one nonce are apart under another, and the stand-in keeps that.
position(key, nonce) == (key * nonce) % TABLE_SIZE

\* Owned::uniform_alloc: the slot the allocator hands out in heap h
uniform_alloc(h) == CHOOSE a \in Addrs : h[a] = FreeNode /\ \A b \in Addrs : h[b] = FreeNode => a <= b

\* the slots of the allocator that are not in use
unused == {a \in Addrs : heap[a] = FreeNode}

\* the leaf get finds for key k from the Table at a (Null: none), a walk of
\* at most n Tables
RECURSIVE find(_, _, _)
find(a, k, n) ==
  IF n = 0 \/ heap[a].kind # "branch" THEN Null
  ELSE LET b == heap[a].buckets[position(k, heap[a].nonce)]
       IN IF b = Null THEN Null
          ELSE IF heap[b].kind = "leaf" THEN (IF heap[b].key = k THEN b ELSE Null)
          ELSE find(b, k, n - 1)

\* the nodes linked below the Table at a in heap h, a walk of at most n Tables
RECURSIVE below(_, _, _)
below(h, a, n) ==
  IF n = 0 \/ h[a].kind # "branch" THEN {}
  ELSE LET bs == {h[a].buckets[s] : s \in Slots} \ {Null}
       IN bs \cup UNION {below(h, b, n - 1) : b \in bs}

\* Table::with_two_entries(entry_1, entry_2) in heap h, ns the nonces that
\* Table::empty draws at this level and below: the Table, and the heap with
\* the nested Tables that were allocated
RECURSIVE with_two_entries(_, _, _, _)
with_two_entries(h, entry_1, entry_2, ns) ==
  LET nonce == Head(ns)
      entry_1_pos == position(h[entry_1].key, nonce)
      entry_2_pos == position(h[entry_2].key, nonce)
  IN IF entry_1_pos # entry_2_pos
       THEN [heap |-> h,
             table |-> Table(nonce, [s \in Slots |-> IF s = entry_1_pos THEN entry_1
                                                      ELSE IF s = entry_2_pos THEN entry_2
                                                      ELSE Null])]
       ELSE LET in == with_two_entries(h, entry_1, entry_2, Tail(ns))
                a == uniform_alloc(in.heap)
            IN [heap |-> [in.heap EXCEPT ![a] = in.table],
                table |-> Table(nonce, [s \in Slots |-> IF s = entry_1_pos THEN a ELSE Null])]

\* the nonces with which with_two_entries returns for keys k1 and k2: they
\* keep the keys together down to the last, which takes them apart
draws(k1, k2) ==
  {ns \in UNION {[1..d -> Nonces] : d \in 1..MaxDepth} :
     /\ \A i \in 1..(Len(ns) - 1) : position(k1, ns[i]) = position(k2, ns[i])
     /\ position(k1, ns[Len(ns)]) # position(k2, ns[Len(ns)])}

\* a TableRef { guard, ptr } on the leaf at a
TableRef(k, a) == [Ref("TableRef", NoShard, k) EXCEPT !.gen = a]

\* a dereference of memory that was handed back to the allocator: the call
\* goes on with whatever the memory holds, the model ends it there
dangling(t, name) ==
  /\ hist' = [hist EXCEPT !.uaf = TRUE]
  /\ unpin(t)
  /\ \E v \in Values \cup {NoVal} : Return(t, Ret(name, "ub", op[t].key, v))
  /\ UNCHANGED <<heap, refs>>

\* NestedMap::insert: let guard = &epoch::pin(); insert_with_guard: bucket =
\* Owned::uniform_alloc(Bucket::Leaf(..)); self.root.insert(bucket, guard)
NestedMap_insert(t, k, v) ==
  /\ unused # {}
  /\ Enter(t, [Call("NestedMap::insert", k, v, NoShard) EXCEPT !.node = uniform_alloc(heap),
                                                                !.i = Root], "Table_insert")
  /\ pin(t)
  /\ heap' = [heap EXCEPT ![uniform_alloc(heap)] = Leaf(k, v)]
  /\ hist' = [hist EXCEPT !.ins = @ \cup {<<k, v>>}]
  /\ UNCHANGED <<cfg, tc, its, locked, head, deferred>>

\* Table::insert: bucket.compare_and_set(null, entry); Ok => return; Err(err)
\* => actual = err.current, actual.as_ref(): a Branch => table.insert(entry,
\* guard), a Leaf => the replace or the promotion below
Table_insert(t) ==
  /\ pc[t] = "Table_insert"
  /\ IF heap[op[t].i].kind # "branch" THEN dangling(t, "NestedMap::insert")
     ELSE LET key_pos == position(op[t].key, heap[op[t].i].nonce)
              actual == heap[op[t].i].buckets[key_pos]
          IN IF actual = Null
               THEN /\ heap' = [heap EXCEPT ![op[t].i].buckets[key_pos] = op[t].node]
                    /\ hist' = [hist EXCEPT !.map[op[t].key] = op[t].val]
                    /\ unpin(t)
                    /\ Return(t, Ret("NestedMap::insert", "unit", op[t].key, op[t].val))
                    /\ UNCHANGED refs
             ELSE IF heap[actual].kind = "free" THEN dangling(t, "NestedMap::insert")
             ELSE /\ op' = [op EXCEPT ![t].seen = actual,
                                      ![t].i = IF heap[actual].kind = "branch" THEN actual ELSE @]
                  /\ Goto(t, IF heap[actual].kind = "branch" THEN "Table_insert"
                             ELSE IF heap[actual].key = op[t].key THEN "Table_insert_replace"
                             ELSE "Table_insert_promote")
                  /\ UNCHANGED <<heap, hist, pins, deferred, refs, fcalls>>
  /\ UNCHANGED <<cfg, tc, its, submaps, lock, local, abs, expect, evals, recent, head>>

\* the key is the one of old_entry: bucket.store(entry, SeqCst);
\* guard.defer_unchecked(|| actual.uniform_dealloc(..)); the guard is dropped
\* at the return of NestedMap::insert
Table_insert_replace(t) ==
  /\ pc[t] = "Table_insert_replace"
  /\ IF heap[op[t].i].kind # "branch" THEN dangling(t, "NestedMap::insert")
     ELSE LET key_pos == position(op[t].key, heap[op[t].i].nonce)
          IN /\ heap' = [heap EXCEPT ![op[t].i].buckets[key_pos] = op[t].node]
             /\ hist' = [hist EXCEPT !.map[op[t].key] = op[t].val,
                                     !.twice = @ \/ heap[op[t].seen].kind = "free"
                                                 \/ \E d \in deferred : d.addr = op[t].seen]
             /\ pins' = [pins EXCEPT ![t] = @ - 1]
             /\ deferred' = LET ds == deferred \cup {[addr |-> op[t].seen, by |-> t, waits |-> pinned]}
                            IN IF pins[t] = 1 THEN {[d EXCEPT !.waits = @ \ {t}] : d \in ds} ELSE ds
             /\ Return(t, Ret("NestedMap::insert", "unit", op[t].key, op[t].val))
             /\ UNCHANGED refs
  /\ UNCHANGED <<cfg, tc, its, submaps, lock, local, abs, expect, evals, recent, head>>

\* the key is another: new_table = Owned::uniform_alloc(Bucket::Branch(
\* Table::with_two_entries(actual, entry))); bucket.store(new_table, SeqCst)
Table_insert_promote(t) ==
  /\ pc[t] = "Table_insert_promote"
  /\ IF heap[op[t].i].kind # "branch" \/ heap[op[t].seen].kind # "leaf"
       THEN dangling(t, "NestedMap::insert")
     ELSE \E ns \in draws(heap[op[t].seen].key, op[t].key) :
            LET key_pos == position(op[t].key, heap[op[t].i].nonce)
                built == with_two_entries(heap, op[t].seen, op[t].node, ns)
                new_table == uniform_alloc(built.heap)
            IN /\ Len(ns) <= Cardinality(unused)
               /\ heap' = [built.heap EXCEPT ![new_table] = built.table,
                                             ![op[t].i].buckets[key_pos] = new_table]
               /\ hist' = [hist EXCEPT !.map[op[t].key] = op[t].val]
               /\ unpin(t)
               /\ Return(t, Ret("NestedMap::insert", "unit", op[t].key, op[t].val))
               /\ UNCHANGED refs
  /\ UNCHANGED <<cfg, tc, its, submaps, lock, local, abs, expect, evals, recent, head>>

\* with_two_entries calls itself for as long as the nonces that Table::empty
\* draws keep the two keys at one position: nothing counts the levels and
\* nothing is reported.  Past MaxDepth levels the model follows the call no
\* further: it is still nesting Tables
with_two_entries_nest(t) ==
  /\ pc[t] = "Table_insert_promote"
  /\ heap[op[t].i].kind = "branch"
  /\ heap[op[t].seen].kind = "leaf"
  /\ \E ns \in [1..MaxDepth -> Nonces] :
       \A i \in 1..MaxDepth : position(heap[op[t].seen].key, ns[i]) = position(op[t].key, ns[i])
  /\ Goto(t, "with_two_entries")
  /\ UNCHANGED <<cfg, tc, its, submaps, lock, local, abs, expect, evals, recent, head>>
  /\ UNCHANGED <<op, refs, fcalls, heap, pins, deferred, hist>>

\* NestedMap::get: let guard = epoch::pin(); self.root.get(key, guard)
NestedMap_get(t, k) ==
  /\ Enter(t, [Call("NestedMap::get", k, NoVal, NoShard) EXCEPT !.i = Root], "Table_get")
  /\ pin(t)
  /\ UNCHANGED <<cfg, tc, its, locked, heap, head, deferred, hist>>

\* Table::get: bucket_shared = self.buckets[key_pos].load(SeqCst); null =>
\* None; a Leaf => Some(TableRef { guard, ptr: entry }) if the key is the
\* entry's, else None; a Branch => table.get(key, guard).  With None the
\* guard is dropped, with Some it lives in the TableRef.
Table_get(t) ==
  /\ pc[t] = "Table_get"
  /\ IF heap[op[t].i].kind # "branch" THEN dangling(t, "NestedMap::get")
     ELSE LET key_pos == position(op[t].key, heap[op[t].i].nonce)
              bucket_shared == heap[op[t].i].buckets[key_pos]
          IN IF bucket_shared = Null
               THEN /\ unpin(t)
                    /\ Return(t, Ret("NestedMap::get", "None", op[t].key, NoVal))
                    /\ UNCHANGED <<heap, hist, refs>>
             ELSE IF heap[bucket_shared].kind = "free" THEN dangling(t, "NestedMap::get")
             ELSE IF heap[bucket_shared].kind = "branch"
               THEN /\ op' = [op EXCEPT ![t].i = bucket_shared]
                    /\ Goto(t, "Table_get")
                    /\ UNCHANGED <<heap, hist, pins, deferred, refs, fcalls>>
             ELSE IF heap[bucket_shared].key = op[t].key
               THEN /\ refs' = [refs EXCEPT ![t] = @ (+) SetToBag({TableRef(op[t].key, bucket_shared)})]
                    /\ Return(t, Ret("NestedMap::get", "Some", op[t].key, heap[bucket_shared].value))
                    /\ UNCHANGED <<heap, hist, pins, deferred>>
             ELSE /\ unpin(t)
                  /\ Return(t, Ret("NestedMap::get", "None", op[t].key, NoVal))
                  /\ UNCHANGED <<heap, hist, refs>>
  /\ UNCHANGED <<cfg, tc, its, submaps, lock, local, abs, expect, evals, recent, head>>

\* Drop for TableRef: mem::drop(self.guard.take())
TableRef_drop(t, g) ==
  /\ pc[t] = "idle"
  /\ g \in HeldRefs(t)
  /\ g.kind = "TableRef"
  /\ refs' = [refs EXCEPT ![t] = @ (-) SetToBag({g})]
  /\ unpin(t)
  /\ UNCHANGED <<cfg, tc, its, submaps, lock, local, abs, expect, evals, recent, head,
                 heap, hist, pc, op, ret, calls, fcalls, snap, last, prev>>

\* NestedMap::remove: let guard = &epoch::pin(); self.root.remove(key, guard)
NestedMap_remove(t, k) ==
  /\ Enter(t, [Call("NestedMap::remove", k, NoVal, NoShard) EXCEPT !.i = Root], "Table_remove")
  /\ pin(t)
  /\ hist' = [hist EXCEPT !.rem = @ \cup {k}]
  /\ UNCHANGED <<cfg, tc, its, locked, heap, head, deferred>>

\* Table::remove: bucket_sharedptr = self.buckets[key_pos].load(SeqCst, guard);
\* null => return; a Branch => table.remove(key, guard); a Leaf => the
\* compare_and_set below
Table_remove(t) ==
  /\ pc[t] = "Table_remove"
  /\ IF heap[op[t].i].kind # "branch" THEN dangling(t, "NestedMap::remove")
     ELSE LET key_pos == position(op[t].key, heap[op[t].i].nonce)
              bucket_sharedptr == heap[op[t].i].buckets[key_pos]
          IN IF bucket_sharedptr = Null
               THEN /\ hist' = [hist EXCEPT !.map[op[t].key] = NoVal]
                    /\ unpin(t)
                    /\ Return(t, Ret("NestedMap::remove", "unit", op[t].key, NoVal))
                    /\ UNCHANGED <<heap, refs>>
             ELSE IF heap[bucket_sharedptr].kind = "free" THEN dangling(t, "NestedMap::remove")
             ELSE /\ op' = [op EXCEPT ![t].seen = bucket_sharedptr,
                                      ![t].i = IF heap[bucket_sharedptr].kind = "branch"
                                                 THEN bucket_sharedptr ELSE @]
                  /\ Goto(t, IF heap[bucket_sharedptr].kind = "branch" THEN "Table_remove"
                             ELSE "Table_remove_cas")
                  /\ UNCHANGED <<heap, hist, pins, deferred, refs, fcalls>>
  /\ UNCHANGED <<cfg, tc, its, submaps, lock, local, abs, expect, evals, recent, head>>

\* Bucket::Leaf(entry) => res = self.buckets[key_pos].compare_and_set(
\* bucket_sharedptr, null); if res.is_ok() { guard.defer_unchecked(||
\* bucket_sharedptr.uniform_dealloc(..)) }: the key of the entry is not read
Table_remove_cas(t) ==
  /\ pc[t] = "Table_remove_cas"
  /\ IF heap[op[t].i].kind # "branch" THEN dangling(t, "NestedMap::remove")
     ELSE LET key_pos == position(op[t].key, heap[op[t].i].nonce)
          IN /\ IF heap[op[t].i].buckets[key_pos] = op[t].seen
                  THEN /\ heap' = [heap EXCEPT ![op[t].i].buckets[key_pos] = Null]
                       /\ hist' = [hist EXCEPT !.map[op[t].key] = NoVal,
                                               !.twice = @ \/ \E d \in deferred : d.addr = op[t].seen]
                       /\ deferred' = LET ds == deferred \cup {[addr |-> op[t].seen, by |-> t,
                                                                waits |-> pinned]}
                                      IN IF pins[t] = 1 THEN {[d EXCEPT !.waits = @ \ {t}] : d \in ds}
                                         ELSE ds
                  ELSE /\ hist' = [hist EXCEPT !.map[op[t].key] = NoVal]
                       /\ deferred' = IF pins[t] = 1 THEN {[d EXCEPT !.waits = @ \ {t}] : d \in deferred}
                                      ELSE deferred
                       /\ UNCHANGED heap
             /\ pins' = [pins EXCEPT ![t] = @ - 1]
             /\ Return(t, Ret("NestedMap::remove", "unit", op[t].key, NoVal))
             /\ UNCHANGED refs
  /\ UNCHANGED <<cfg, tc, its, submaps, lock, local, abs, expect, evals, recent, head>>

\* the deferred closure of insert or remove runs: Shared::uniform_dealloc
\* hands the slot back and drops what it held, and Drop for Table does the
\* same with every bucket of a Branch; MemoryPool::dealloc of a slot that is
\* not in use panics
uniform_dealloc(d) ==
  /\ d \in deferred
  /\ d.waits = {}
  /\ deferred' = deferred \ {d}
  /\ IF heap[d.addr].kind = "free"
       THEN /\ hist' = [hist EXCEPT !.dfree = TRUE]
            /\ UNCHANGED heap
       ELSE /\ heap' = [a \in Addrs |->
                          IF a \in {d.addr} \cup below(heap, d.addr, Cardinality(Addrs))
                            THEN FreeNode ELSE heap[a]]
            /\ UNCHANGED hist
  /\ UNCHANGED <<cfg, tc, its, locked, pc, op, ret, calls, fcalls, snap, last, prev,
                 head, pins>>

(* ---------------------------- specifications --------------------------- *)
\* the keyed blocking operations and the references they hand out
Basic(t) ==
  \/ \E k \in Keys, v \in Values : insert_lock(t, k, v)
  \/ insert_body(t)
  \/ \E k \in Keys : get_lock(t, k)
  \/ get_body(t)
  \/ \E k \in Keys : get_mut_lock(t, k)
  \/ get_mut_body(t)
  \/ \E k \in Keys : contains_key_lock(t, k)
  \/ contains_key_body(t)
  \/ \E k \in Keys : remove_lock(t, k)
  \/ remove_body(t)
  \/ \E g \in HeldRefs(t) : drop_ref(t, g)
  \/ \E g \in HeldRefs(t), v \in Values : deref_mut(t, g, v)

Next == \E t \in Threads : Basic(t)

Spec == Init /\ [][Next]_vars

\* one thread alone: the keyed operations and the bulk operations
Main == CHOOSE t \in Threads : \A u \in Threads : t <= u

Single(t) ==
  \/ \E k \in Keys, v \in Values : insert_lock(t, k, v)
  \/ insert_body(t)
  \/ \E k \in Keys : get_lock(t, k)
  \/ get_body(t)
  \/ \E k \in Keys : contains_key_lock(t, k)
  \/ contains_key_body(t)
  \/ \E k \in Keys : remove_lock(t, k)
  \/ remove_body(t)
  \/ len_call(t)
  \/ len_lock(t)
  \/ len_body(t)
  \/ \E g \in HeldRefs(t) : drop_ref(t, g)

NextSeq == Single(Main)

SpecSeq == InitHist /\ [][NextSeq]_vars

\* one thread alone: the bulk operations on a map that insert has filled
Bulk(t) ==
  \/ \E k \in Keys, v \in Values : insert_lock(t, k, v)
  \/ insert_body(t)
  \/ \E k \in Keys : get_lock(t, k)
  \/ get_body(t)
  \/ len_call(t)
  \/ is_empty_call(t)
  \/ len_lock(t)
  \/ len_body(t)
  \/ clear_call(t)
  \/ clear_lock(t)
  \/ clear_body(t)
  \/ \E p \in Preds : retain_call(t, p)
  \/ retain_lock(t)
  \/ retain_body(t)
  \/ \E g \in HeldRefs(t) : drop_ref(t, g)

NextBulk == Bulk(Main)

SpecBulk == InitLast /\ [][NextBulk]_vars

\* a map that earlier inserts have filled with the entries of c
Filled(c, nonce) ==
  /\ ncb = NumChunksLog2
  /\ hash_nonce = nonce
  /\ submaps = [s \in ShardIds(NumChunksLog2) |->
                  [k \in Keys |-> IF determine_map(TRUE, nonce, NumChunksLog2, k) = s
                                    THEN c[k] ELSE NoVal]]
  /\ lock = [s \in ShardIds(NumChunksLog2) |-> Unlocked]
  /\ abs = c

\* insert(k, v) has run for every key but the last: NumKeys - 1 calls are spent
SomeEntries == [k \in Keys |-> IF k < NumKeys THEN 1 + (k % NumValues) ELSE NoVal]

InitFilled ==
  /\ \E nonce \in 0..MaxNonce : Filled(SomeEntries, nonce)
  /\ track = "off"
  /\ calls = NumKeys - 1
  /\ Threads0

\* try_get and try_get_mut, next to the blocking calls that hold a shard's lock
Try(t) ==
  \/ \E k \in Keys : get_lock(t, k)
  \/ get_body(t)
  \/ \E k \in Keys : get_mut_lock(t, k)
  \/ get_mut_body(t)
  \/ \E k \in Keys : try_get_call(t, k)
  \/ try_get_body(t)
  \/ \E k \in Keys : try_get_mut_call(t, k)
  \/ try_get_mut_body(t)
  \/ \E g \in HeldRefs(t) : drop_ref(t, g)

NextTry == \E t \in Threads : Try(t)

SpecTry == InitFilled /\ [][NextTry]_vars

\* the timed variants, next to the blocking calls that hold a shard's lock
Timed(t) ==
  \/ \E k \in Keys : get_lock(t, k)
  \/ get_body(t)
  \/ \E k \in Keys : get_mut_lock(t, k)
  \/ get_mut_body(t)
  \/ \E k \in Keys : try_get_with_timeout_call(t, k)
  \/ try_get_with_timeout_lock(t)
  \/ try_get_with_timeout_expire(t)
  \/ try_get_with_timeout_body(t)
  \/ \E k \in Keys : try_get_mut_with_timeout_call(t, k)
  \/ try_get_mut_with_timeout_lock(t)
  \/ try_get_mut_with_timeout_expire(t)
  \/ try_get_mut_with_timeout_body(t)
  \/ \E g \in HeldRefs(t) : drop_ref(t, g)

NextTimed == \E t \in Threads : Timed(t)

SpecTimed == InitFilled /\ [][NextTimed]_vars

\* get_or_insert and get_or_insert_with on a map that starts empty; the last
\* of the MaxCalls calls is not made
Goi(t) ==
  \/ \E k \in Keys, v \in Values : calls + 1 < MaxCalls /\ get_or_insert_read(t, k, v)
  \/ \E k \in Keys, v \in Values : calls + 1 < MaxCalls /\ get_or_insert_with_read(t, k, v)
  \/ get_or_insert_check(t)
  \/ get_or_insert_relock(t)
  \/ get_or_insert_store(t)
  \/ \E g \in HeldRefs(t) : drop_ref(t, g)

NextGoi == \E t \in Threads : Goi(t)

SpecGoi == Init /\ [][NextGoi]_vars

\* threads that insert and read back
Ins(t) ==
  \/ \E k \in Keys, v \in Values : insert_lock(t, k, v)
  \/ insert_body(t)
  \/ \E k \in Keys : get_lock(t, k)
  \/ get_body(t)
  \/ \E g \in HeldRefs(t) : drop_ref(t, g)

NextIns == \E t \in Threads : Ins(t)

SpecIns == InitRecent /\ [][NextIns]_vars

\* every operation that hands out a guarded reference, on a filled map
Guard(t) ==
  \/ \E k \in Keys : get_lock(t, k)
  \/ get_body(t)
  \/ \E k \in Keys : get_mut_lock(t, k)
  \/ get_mut_body(t)
  \/ \E k \in Keys : index_lock(t, k)
  \/ index_body(t)
  \/ \E k \in Keys : index_mut_lock(t, k)
  \/ index_mut_body(t)
  \/ \E k \in Keys : try_get_call(t, k)
  \/ try_get_body(t)
  \/ \E k \in Keys : try_get_mut_call(t, k)
  \/ try_get_mut_body(t)
  \/ \E k \in Keys : try_get_with_timeout_call(t, k)
  \/ try_get_with_timeout_lock(t)
  \/ try_get_with_timeout_expire(t)
  \/ try_get_with_timeout_body(t)
  \/ \E k \in Keys : try_get_mut_with_timeout_call(t, k)
  \/ try_get_mut_with_timeout_lock(t)
  \/ try_get_mut_with_timeout_expire(t)
  \/ try_get_mut_with_timeout_body(t)
  \/ \E k \in Keys, v \in Values : get_or_insert_read(t, k, v)
  \/ \E k \in Keys, v \in Values : get_or_insert_with_read(t, k, v)
  \/ get_or_insert_check(t)
  \/ get_or_insert_relock(t)
  \/ get_or_insert_store(t)
  \/ iter_call(t)
  \/ \E k \in Keys : iter_yield(t, k)
  \/ slow_path_new_chunk(t)
  \/ iter_advance(t)
  \/ iter_end(t)
  \/ iter_drop(t)
  \/ chunks_call(t)
  \/ chunks_write_call(t)
  \/ chunks_next(t)
  \/ chunks_drop(t)
  \/ \E g \in HeldRefs(t) : drop_ref(t, g)
  \/ \E g \in HeldRefs(t) : drop_iter_ref(t, g)

NextGuard == \E t \in Threads : Guard(t)

SpecGuard == InitFilled /\ [][NextGuard]_vars

\* one thread alone: alter on a map that insert has filled, read back by get
\* and len
Alter(t) ==
  \/ \E k \in Keys, v \in Values : insert_lock(t, k, v)
  \/ insert_body(t)
  \/ \E k \in Keys : get_lock(t, k)
  \/ get_body(t)
  \/ len_call(t)
  \/ len_lock(t)
  \/ len_body(t)
  \/ \E a \in Alts : alter_call(t, a)
  \/ alter_lock(t)
  \/ alter_body(t)
  \/ \E g \in HeldRefs(t) : drop_ref(t, g)

NextAlter == Alter(Main)

SpecAlter == InitHist /\ [][NextAlter]_vars

\* one thread alone: the entries are counted by len, is_empty and by walking
\* chunks() / chunks_write() the way for_each and sum do, every chunk being
\* dropped before the next is asked for
Count(t) ==
  \/ \E k \in Keys, v \in Values : insert_lock(t, k, v)
  \/ insert_body(t)
  \/ \E k \in Keys : remove_lock(t, k)
  \/ remove_body(t)
  \/ len_call(t)
  \/ is_empty_call(t)
  \/ len_lock(t)
  \/ len_body(t)
  \/ chunks_call(t)
  \/ chunks_write_call(t)
  \/ HeldRefs(t) = {} /\ chunks_next(t)
  \/ chunks_drop(t)
  \/ \E g \in HeldRefs(t) : drop_ref(t, g)

NextCount == Count(Main)

SpecCount == InitLast /\ [][NextCount]_vars

\* one thread constructs a map with any num_chunks_log_2, in either build, and
\* uses it.  len walks the shards of a map that has 2^ncb of them.
InitBuild ==
  /\ Unbuilt
  /\ abs = [k \in Keys |-> NoVal]
  /\ track = "recent"
  /\ calls = 0
  /\ overflow_checks \in BOOLEAN
  /\ NoCache
  /\ Idle0

KeyedNames == {"insert", "get", "contains_key", "remove"}

Build(t) ==
  \/ \E b \in Bits, n \in 0..MaxNonce : new_call(t, b, n)
  \/ \E b \in Bits, c \in 0..1, n \in 0..MaxNonce : with_capacity_call(t, b, c, n)
  \/ \E k \in Keys, v \in Values : insert_lock(t, k, v)
  \/ insert_body(t)
  \/ \E k \in Keys : get_lock(t, k)
  \/ get_body(t)
  \/ \E k \in Keys : contains_key_lock(t, k)
  \/ contains_key_body(t)
  \/ \E k \in Keys : remove_lock(t, k)
  \/ remove_body(t)
  \/ \E k \in Keys, name \in KeyedNames : determine_map_fault(t, name, k)
  \/ DOMAIN submaps = ShardIds(ncb) /\ len_call(t)
  \/ len_lock(t)
  \/ len_body(t)
  \/ \E g \in HeldRefs(t) : drop_ref(t, g)

NextBuild == Build(Main)

SpecBuild == InitBuild /\ [][NextBuild]_vars

\* one thread walks iter() over a filled map while the others insert and
\* remove.  The walking thread keeps calling next(), and a call that holds a
\* lock runs to its return.
InitIter ==
  /\ \E nonce \in 0..MaxNonce : Filled(SomeEntries, nonce)
  /\ track = "recent"
  /\ calls = NumKeys - 1
  /\ Threads0

Walk(t) ==
  \/ iter_call(t)
  \/ \E k \in Keys : iter_yield(t, k)
  \/ slow_path_new_chunk(t)
  \/ iter_advance(t)
  \/ iter_end(t)
  \/ iter_drop(t)
  \/ \E g \in HeldRefs(t) : drop_iter_ref(t, g)

Mutate(t) ==
  \/ \E k \in Keys, v \in Values : insert_lock(t, k, v)
  \/ insert_body(t)
  \/ \E k \in Keys : remove_lock(t, k)
  \/ remove_body(t)

NextIter ==
  \/ Walk(Main)
  \/ \E t \in Threads \ {Main} : Mutate(t)

SpecIter ==
  /\ InitIter
  /\ [][NextIter]_vars
  /\ WF_vars(\E k \in Keys : iter_yield(Main, k))
  /\ WF_vars(slow_path_new_chunk(Main))
  /\ WF_vars(iter_advance(Main))
  /\ WF_vars(iter_end(Main))
  /\ \A t \in Threads \ {Main} : WF_vars(insert_body(t) \/ remove_body(t))

\* index and index_mut next to get and get_mut, on a map that lacks a key
Idx(t) ==
  \/ \E k \in Keys : get_lock(t, k)
  \/ get_body(t)
  \/ \E k \in Keys : get_mut_lock(t, k)
  \/ get_mut_body(t)
  \/ \E k \in Keys : index_lock(t, k)
  \/ index_body(t)
  \/ \E k \in Keys : index_mut_lock(t, k)
  \/ index_mut_body(t)
  \/ \E g \in HeldRefs(t) : drop_ref(t, g)

NextIdx == \E t \in Threads : Idx(t)

SpecIdx == InitFilled /\ [][NextIdx]_vars

\* a timed cache that nobody has used yet, on a store that holds every key
InitCache ==
  /\ \E nonce \in 0..MaxNonce : TimedCache_new(NumChunksLog2, nonce)
  /\ store = Stored(NumKeys)
  /\ abs = [k \in Keys |-> NoVal]
  /\ track = "off"
  /\ calls = 0
  /\ overflow_checks = TRUE
  /\ Idle0

\* a value of the clock
Instants == 0..MaxTime

\* the statements of load_item, wherever it was called from
Load(t) ==
  \/ \E n \in Instants : load_item_fn(t, n)
  \/ load_item_insert(t)

\* map_mut
MapMut(t) ==
  \/ \E k \in Keys, w \in Values : load_item_contains_key(t, "map_mut", k, w)
  \/ map_mut_get(t)
  \/ map_mut_mark(t)
  \/ map_mut_f(t)

\* load_item, called directly
LoadItem(t) ==
  \/ \E k \in Keys : load_item_contains_key(t, "load_item", k, NoVal)
  \/ load_item_return(t)

\* map
Map(t) ==
  \/ \E k \in Keys : load_item_contains_key(t, "map", k, NoVal)
  \/ map_get(t)
  \/ map_f(t)

\* do_check
Check(t) ==
  \/ \E n \in Instants : do_check_call(t, n)
  \/ do_check_last_saved(t)
  \/ do_check_last_purged(t)
  \/ do_check_save(t)
  \/ do_check_save_lock(t)
  \/ \E ok \in [Keys -> BOOLEAN] : do_check_save_body(t, ok)
  \/ do_check_purge(t)
  \/ do_check_purge_lock(t)
  \/ do_check_purge_body(t)
  \/ do_check_return(t)

\* threads read and write through the cache while time passes
NextCache == \E t \in Threads : Load(t) \/ LoadItem(t) \/ Map(t) \/ MapMut(t)

SpecCache == InitCache /\ [][NextCache]_vars

\* the same on a store that lacks the last key
InitMiss ==
  /\ \E nonce \in 0..MaxNonce : TimedCache_new(NumChunksLog2, nonce)
  /\ store = Stored(NumKeys - 1)
  /\ abs = [k \in Keys |-> NoVal]
  /\ track = "off"
  /\ calls = 0
  /\ overflow_checks = TRUE
  /\ Idle0

SpecMiss == InitMiss /\ [][NextCache]_vars

\* a thread maintains the cache that it and the others read and write
NextCheck ==
  \/ Check(Main)
  \/ \E t \in Threads : Load(t) \/ Map(t) \/ MapMut(t)

SpecCheck == InitCache /\ [][NextCheck]_vars

\* a stack that threads push to and pop from while the epochs advance
Stack(t) ==
  \/ push_call(t)
  \/ push_load(t)
  \/ push_cas(t)
  \/ pop_call(t)
  \/ pop_load(t)
  \/ pop_next(t)
  \/ pop_cas(t)
  \/ pop_read(t)

NextStack ==
  \/ \E t \in Threads : Stack(t)
  \/ \E d \in deferred : drop_node(d)

\* ConcurrentStack::new: head is null
InitStack ==
  /\ Unbuilt
  /\ abs = [k \in Keys |-> NoVal]
  /\ track = "off"
  /\ calls = 0
  /\ Threads0

SpecStack == InitStack /\ [][NextStack]_vars

\* NestedMap::new(): root = Table::empty(..), with a random nonce; nothing
\* else is allocated
InitTrie ==
  /\ Unbuilt
  /\ abs = [k \in Keys |-> NoVal]
  /\ track = "off"
  /\ calls = 0
  /\ overflow_checks = TRUE
  /\ NoCache
  /\ Frames0
  /\ \E nonce \in Nonces : heap = [a \in Addrs |-> IF a = Root THEN empty(nonce) ELSE FreeNode]
  /\ head = Null
  /\ pins = [t \in Threads |-> 0]
  /\ deferred = {}
  /\ hist = NoHist

\* the operations of the trie and the TableRefs they hand out
Trie(t) ==
  \/ \E k \in TrieKeys, v \in Values : NestedMap_insert(t, k, v)
  \/ Table_insert(t)
  \/ Table_insert_replace(t)
  \/ Table_insert_promote(t)
  \/ with_two_entries_nest(t)
  \/ \E k \in TrieKeys : NestedMap_get(t, k)
  \/ Table_get(t)
  \/ \E g \in HeldRefs(t) : TableRef_drop(t, g)
  \/ \E k \in TrieKeys : NestedMap_remove(t, k)
  \/ Table_remove(t)
  \/ Table_remove_cas(t)

NextTrie == (\E t \in Threads : Trie(t)) \/ (\E d \in deferred : uniform_dealloc(d))

SpecTrie == InitTrie /\ [][NextTrie]_vars

\* one thread alone on the trie
NextTrieMain == Trie(Main) \/ (\E d \in deferred : uniform_dealloc(d))

SpecTrieMain == InitTrie /\ [][NextTrieMain]_vars

\* the bulk operations of several threads next to one another
Sweep(t) ==
  \/ clear_call(t)
  \/ clear_lock(t)
  \/ clear_body(t)
  \/ \E p \in Preds : retain_call(t, p)
  \/ retain_lock(t)
  \/ retain_body(t)
  \/ \E a \in Alts : alter_call(t, a)
  \/ alter_lock(t)
  \/ alter_body(t)

NextSweep == \E t \in Threads : Sweep(t)

SpecSweep == InitFilled /\ [][NextSweep]_vars

\* do_check on several threads, while one thread writes through the cache
NextChecks == (\E t \in Threads : Check(t)) \/ Load(Main) \/ MapMut(Main)

SpecChecks == InitCache /\ [][NextChecks]_vars

\* a thread that holds no guarded reference and no iterator of the map
Polite(t) == refs[t] = EmptyBag /\ ~iters[t].live

\* the calls a thread makes while it holds nothing of the map
Calls(t) ==
  \/ \E k \in Keys, v \in Values : insert_lock(t, k, v)
  \/ \E k \in Keys : get_lock(t, k)
  \/ \E k \in Keys : get_mut_lock(t, k)
  \/ \E k \in Keys : remove_lock(t, k)
  \/ \E k \in Keys : contains_key_lock(t, k)
  \/ \E k \in Keys, v \in Values : get_or_insert_read(t, k, v)
  \/ len_call(t)
  \/ clear_call(t)
  \/ \E p \in Preds : retain_call(t, p)
  \/ \E a \in Alts : alter_call(t, a)
  \/ iter_call(t)

\* what a thread does inside a call, with its iterator and with the
\* references it holds
Runs(t) ==
  \/ insert_body(t)
  \/ get_body(t)
  \/ get_mut_body(t)
  \/ remove_body(t)
  \/ contains_key_body(t)
  \/ get_or_insert_check(t)
  \/ get_or_insert_relock(t)
  \/ get_or_insert_store(t)
  \/ len_lock(t)
  \/ len_body(t)
  \/ clear_lock(t)
  \/ clear_body(t)
  \/ retain_lock(t)
  \/ retain_body(t)
  \/ alter_lock(t)
  \/ alter_body(t)
  \/ \E k \in Keys : iter_yield(t, k)
  \/ slow_path_new_chunk(t)
  \/ iter_advance(t)
  \/ iter_end(t)
  \/ iter_drop(t)
  \/ \E g \in HeldRefs(t) : drop_ref(t, g)
  \/ \E g \in HeldRefs(t) : drop_iter_ref(t, g)

Live(t) == (Polite(t) /\ Calls(t)) \/ Runs(t)

NextLive == \E t \in Threads : Live(t)

\* the threads are scheduled fairly: a thread that can go on inside a call, or
\* that can drop what it holds, does so in the end
SpecLive == InitFilled /\ [][NextLive]_vars /\ \A t \in Threads : WF_vars(Runs(t))

(* ========================== UniformAllocator ============================ *)
\* no pool keeps more segments than this: a segment pushed beyond it is not
\* kept by the model
MaxSegments == 3

\* the tags alloc and dealloc are called with
Tags == 0..pool_count

\* what the allocator leaves alone
outside == <<ncb, hash_nonce, overflow_checks, track, hl, tc, lf, its, locked>>

\* a vacant entry of a Slab
VacantKey == -1

\* SlabSegment::new(capacity): Slab::with_capacity(capacity), no object, no
\* mapping.  objects[key + 1] is the entry of ObjectKey(key), vacant lists
\* the vacated keys, the last vacated first; mappings holds a pointer for
\* every occupied entry.
SlabSegment(id) == [id |-> id, objects |-> <<>>, vacant |-> <<>>]

\* the address of the entry of key in the segment id
Pointer(id, key) == id * SEGMENT_SIZE + key

\* the pointers dealloc is called with
Pointers == {Pointer(id, key) : id \in 1..(pool_count * MaxSegments), key \in 0..(SEGMENT_SIZE - 1)}

\* Slab::len: the occupied entries
len(segment) == Cardinality({i \in DOMAIN segment.objects : segment.objects[i] # VacantKey})

\* Slab::capacity: that of the Vec of entries, which with_capacity(SEGMENT_SIZE)
\* reserves and a push beyond it enlarges
capacity(segment) == IF Len(segment.objects) > SEGMENT_SIZE THEN Len(segment.objects) ELSE SEGMENT_SIZE

\* usize::saturating_sub
saturating_sub(a, b) == IF a > b THEN a - b ELSE 0

\* SlabSegment::has_space: self.objects.len().saturating_sub(self.objects.capacity())
has_space(segment) == saturating_sub(len(segment), capacity(segment))

\* the key Slab::insert stores at: the entry vacated last, else a new one
next_key(segment) ==
  IF segment.vacant # <<>> THEN Head(segment.vacant) ELSE Len(segment.objects)

\* SlabSegment::alloc, and the ptr::write of v that uniform_alloc does with
\* the pointer
SlabSegment_alloc(segment, v) ==
  LET key == next_key(segment)
  IN [segment EXCEPT !.objects = IF key = Len(@) THEN Append(@, v) ELSE [@ EXCEPT ![key + 1] = v],
                     !.vacant = IF @ # <<>> THEN Tail(@) ELSE @]

\* SlabSegment::dealloc: mappings.remove(ptr) finds the key of an occupied
\* entry of this segment or nothing
mapped(segment, ptr) ==
  \E key \in 0..(Len(segment.objects) - 1) :
    ptr = Pointer(segment.id, key) /\ segment.objects[key + 1] # VacantKey

SlabSegment_dealloc(segment, ptr) ==
  LET key == ptr - segment.id * SEGMENT_SIZE
  IN [segment EXCEPT !.objects[key + 1] = VacantKey, !.vacant = <<key>> \o @]

\* the segments that exist
segment_count == LET RECURSIVE sum(_)
                     sum(p) == IF p < 0 THEN 0 ELSE Len(pools[p].segments) + sum(p - 1)
                 IN sum(pool_count - 1)

\* UniformAllocator::alloc(tag): pool_idx = tag % pool_count; the Mutex of the
\* pool is locked and pool.alloc() starts with search_idx = 0.
\* uniform_alloc(allocator, tag, v) is the caller
UniformAllocator_alloc(t, tag, v) ==
  /\ pools[tag % pool_count].mutex = Free
  /\ Enter(t, [Call("UniformAllocator::alloc", tag, v, NoShard) EXCEPT !.i = 0], "MemoryPool_alloc")
  /\ pools' = [pools EXCEPT ![tag % pool_count].mutex = t]
  /\ UNCHANGED outside

\* MemoryPool::alloc, one turn of its loop
MemoryPool_alloc(t) ==
  /\ pc[t] = "MemoryPool_alloc"
  /\ LET pool_idx == op[t].key % pool_count
         segments == pools[pool_idx].segments
         search_idx == op[t].i
     IN IF search_idx < Len(segments)
          THEN LET segment == segments[search_idx + 1]
                   space == has_space(segment)
               IN IF space # 0
                    THEN LET done == [segments EXCEPT ![search_idx + 1] = SlabSegment_alloc(segment, op[t].val)]
                             moved == IF search_idx # 0 /\ space > SEGMENT_MOVE_THRESHOLD
                                        THEN <<done[search_idx + 1]>>
                                             \o SubSeq(done, 1, search_idx)
                                             \o SubSeq(done, search_idx + 2, Len(done))
                                        ELSE done
                         IN /\ pools' = [pools EXCEPT ![pool_idx] = [mutex |-> Free, segments |-> moved]]
                            /\ Return(t, Ret("UniformAllocator::alloc", "ptr", op[t].key,
                                             Pointer(segment.id, next_key(segment))))
                    ELSE /\ op' = [op EXCEPT ![t].i = search_idx + 1]
                         /\ Goto(t, "MemoryPool_alloc")
                         /\ UNCHANGED <<pools, fcalls>>
          ELSE /\ pools' = [pools EXCEPT ![pool_idx].segments =
                              IF Len(@) < MaxSegments THEN <<SlabSegment(segment_count + 1)>> \o @ ELSE @]
               /\ op' = [op EXCEPT ![t].i = 0]
               /\ Goto(t, "MemoryPool_alloc")
               /\ UNCHANGED fcalls
  /\ UNCHANGED outside

\* UniformAllocator::dealloc(tag, ptr): the Mutex of the pool tag % pool_count
\* is locked
UniformAllocator_dealloc(t, tag, ptr) ==
  /\ pools[tag % pool_count].mutex = Free
  /\ Enter(t, [Call("UniformAllocator::dealloc", tag, NoVal, NoShard) EXCEPT !.node = ptr],
           "MemoryPool_dealloc")
  /\ pools' = [pools EXCEPT ![tag % pool_count].mutex = t]
  /\ UNCHANGED outside

\* MemoryPool::dealloc: the first segment that maps the pointer gives the
\* object up; panic!("invalid ptr on dealloc") if none does.  The guard of the
\* Mutex is dropped on either way out.
MemoryPool_dealloc(t) ==
  /\ pc[t] = "MemoryPool_dealloc"
  /\ LET pool_idx == op[t].key % pool_count
         segments == pools[pool_idx].segments
         ptr == op[t].node
         hits == {i \in DOMAIN segments : mapped(segments[i], ptr)}
     IN IF hits # {}
          THEN LET i == CHOOSE i \in hits : \A j \in hits : i <= j
                   key == ptr - segments[i].id * SEGMENT_SIZE
               IN /\ pools' = [pools EXCEPT ![pool_idx] =
                                 [mutex |-> Free,
                                  segments |-> [segments EXCEPT ![i] = SlabSegment_dealloc(@, ptr)]]]
                  /\ Return(t, Ret("UniformAllocator::dealloc", "Some", ptr, segments[i].objects[key + 1]))
          ELSE /\ pools' = [pools EXCEPT ![pool_idx].mutex = Free]
               /\ Return(t, Ret("UniformAllocator::dealloc", "panic", ptr, NoVal))
  /\ UNCHANGED outside

Alloc(t) ==
  \/ \E tag \in Tags, v \in Values : UniformAllocator_alloc(t, tag, v)
  \/ MemoryPool_alloc(t)
  \/ \E tag \in Tags, ptr \in Pointers : UniformAllocator_dealloc(t, tag, ptr)
  \/ MemoryPool_dealloc(t)

NextAlloc == \E t \in Threads : Alloc(t)

\* UniformAllocator::new(pool_count): every pool is MemoryPool::new()
InitAlloc ==
  /\ Unbuilt
  /\ abs = [k \in Keys |-> NoVal]
  /\ track = "off"
  /\ calls = 0
  /\ Threads0

\* a thread inside alloc goes on with its loop
SpecAlloc == InitAlloc /\ [][NextAlloc]_vars /\ \A t \in Threads : WF_vars(MemoryPool_alloc(t))

(* ============================ HLTimedCache ============================== *)
\* pub const SAVE_INTERVAL: Duration = 3 min, scaled down
SAVE_INTERVAL == 0

\* what the cache of the two maps leaves alone
beyond == <<ncb, hash_nonce, overflow_checks, track, pools, lf, its, locked>>

\* the DHashMaps lookup, saved and unsaved, every key in a shard of its own;
\* hl.lock is the RwLock of the shards of lookup, whose guards map and map_mut
\* keep; the guards on saved and unsaved are taken and dropped within a step
present(e) == e # NoEntry

\* the step of thread t leaves its call with r
HLReturn(t, r) ==
  /\ Return(t, r)
  /\ UNCHANGED <<now, last_saved, last_purged, mtx, store>>

HLGoto(t, label) ==
  /\ Goto(t, label)
  /\ UNCHANGED <<fcalls, now, last_saved, last_purged, mtx, store>>

\* map / map_mut: self.load_item(key), which starts with
\* if !self.lookup.contains_key(key)
HL_load_item(t, name, k, w) ==
  /\ CanRead(hl.lock[k])
  /\ Enter(t, Call(name, k, w, NoShard),
           IF hl.lookup[k] # "none" THEN "HL_lookup_get" ELSE "HL_load_item_fn")
  /\ UNCHANGED <<hl, tc, beyond>>

\* if let Some(v) = (self.load_item_fn)(key) { let v = Entry::new(v); ..
HL_load_item_fn(t) ==
  /\ pc[t] = "HL_load_item_fn"
  /\ IF store[op[t].key] = NoVal
       THEN /\ HLGoto(t, "HL_lookup_get")
            /\ UNCHANGED op
       ELSE /\ HLGoto(t, "HL_load_item_lookup")
            /\ op' = [op EXCEPT ![t].seen = store[op[t].key]]
  /\ UNCHANGED <<hl, beyond>>

\* self.lookup.insert(key.clone(), true);
HL_load_item_lookup(t) ==
  /\ pc[t] = "HL_load_item_lookup"
  /\ CanWrite(hl.lock[op[t].key])
  /\ hl' = [hl EXCEPT !.lookup[op[t].key] = "true"]
  /\ HLGoto(t, "HL_load_item_saved")
  /\ UNCHANGED <<op, beyond>>

\* self.saved.insert(key.clone(), v);
HL_load_item_saved(t) ==
  /\ pc[t] = "HL_load_item_saved"
  /\ hl' = [hl EXCEPT !.saved[op[t].key] = HLEntry(TRUE, op[t].seen)]
  /\ HLGoto(t, "HL_lookup_get")
  /\ UNCHANGED <<op, beyond>>

\* map: let s = self.lookup.get(key).unwrap();
\* map_mut: let mut s = self.lookup.get_mut(key).unwrap();
HL_lookup_get(t) ==
  /\ pc[t] = "HL_lookup_get"
  /\ LET k == op[t].key
     IN IF op[t].name = "HLTimedCache::map"
          THEN /\ CanRead(hl.lock[k])
               /\ IF hl.lookup[k] = "none"
                    THEN /\ HLReturn(t, Ret(op[t].name, "panic", k, NoVal))
                         /\ UNCHANGED hl
                    ELSE /\ hl' = [hl EXCEPT !.lock[k] = AcqRead(@)]
                         /\ HLGoto(t, "HL_map_data")
                         /\ UNCHANGED op
          ELSE /\ CanWrite(hl.lock[k])
               /\ IF hl.lookup[k] = "none"
                    THEN /\ HLReturn(t, Ret(op[t].name, "panic", k, NoVal))
                         /\ UNCHANGED hl
                    ELSE /\ hl' = [hl EXCEPT !.lock[k] = AcqWrite(@)]
                         /\ HLGoto(t, IF hl.lookup[k] = "true" THEN "HL_map_mut_remove" ELSE "HL_map_mut_data")
                         /\ UNCHANGED op
  /\ UNCHANGED beyond

\* let data = if *s { self.saved.get(key).unwrap() } else {
\* self.unsaved.get(key).unwrap() }; f(data.get())
HL_map_data(t) ==
  /\ pc[t] = "HL_map_data"
  /\ LET k == op[t].key
         data == IF hl.lookup[k] = "true" THEN hl.saved[k] ELSE hl.unsaved[k]
     IN /\ hl' = [hl EXCEPT !.lock[k] = RelRead(@)]
        /\ IF present(data)
             THEN HLReturn(t, Ret(op[t].name, "T", k, data.data))
             ELSE HLReturn(t, Ret(op[t].name, "unwrap", k, NoVal))
  /\ UNCHANGED beyond

\* if *s { let mut e = self.saved.remove(key).unwrap(); e.1.set_saved(false);
HL_map_mut_remove(t) ==
  /\ pc[t] = "HL_map_mut_remove"
  /\ LET k == op[t].key
     IN IF present(hl.saved[k])
          THEN /\ hl' = [hl EXCEPT !.saved[k] = NoEntry]
               /\ op' = [op EXCEPT ![t].seen = hl.saved[k].data]
               /\ HLGoto(t, "HL_map_mut_insert")
          ELSE /\ hl' = [hl EXCEPT !.lock[k] = RelWrite(@)]
               /\ HLReturn(t, Ret(op[t].name, "unwrap", k, NoVal))
  /\ UNCHANGED beyond

\* self.unsaved.insert(e.0, e.1); *s = false; }
HL_map_mut_insert(t) ==
  /\ pc[t] = "HL_map_mut_insert"
  /\ hl' = [hl EXCEPT !.unsaved[op[t].key] = HLEntry(FALSE, op[t].seen),
                      !.lookup[op[t].key] = "false"]
  /\ HLGoto(t, "HL_map_mut_data")
  /\ UNCHANGED <<op, beyond>>

\* let mut data = self.unsaved.get_mut(key).unwrap(); f(data.get_mut()),
\* where f stores the value the caller brought
HL_map_mut_data(t) ==
  /\ pc[t] = "HL_map_mut_data"
  /\ LET k == op[t].key
     IN IF present(hl.unsaved[k])
          THEN /\ hl' = [hl EXCEPT !.unsaved[k].data = op[t].val, !.lock[k] = RelWrite(@)]
               /\ HLReturn(t, Ret(op[t].name, "T", k, op[t].val))
          ELSE /\ hl' = [hl EXCEPT !.lock[k] = RelWrite(@)]
               /\ HLReturn(t, Ret(op[t].name, "unwrap", k, NoVal))
  /\ UNCHANGED beyond

\* do_check(f): let now = Instant::now(); let mut last_saved =
\* self.last_saved.lock(); let mut last_purged = self.last_purged.lock();
HL_do_check(t, f, n) ==
  /\ mtx.saved = Free
  /\ mtx.purged = Free
  /\ Instant_now(n)
  /\ Enter(t, [Call("HLTimedCache::do_check", NoKey, NoVal, NoShard) EXCEPT !.inst = n,
                                                                            !.acc = IF f THEN 1 ELSE 0,
                                                                            !.i = 1],
           "HL_do_check_gate")
  /\ mtx' = [saved |-> t, purged |-> t]
  /\ UNCHANGED <<hl, last_saved, last_purged, store, beyond>>

\* if now.duration_since(*last_saved) > SAVE_INTERVAL || f { *last_saved =
\* now; .. tokio::run_async(app()); }
HL_do_check_gate(t) ==
  /\ pc[t] = "HL_do_check_gate"
  /\ IF duration_since(op[t].inst, last_saved) > SAVE_INTERVAL \/ op[t].acc = 1
       THEN /\ last_saved' = op[t].inst
            /\ Goto(t, "HL_app")
            /\ UNCHANGED <<op, fcalls, mtx>>
       ELSE /\ mtx' = [saved |-> Free, purged |-> Free]
            /\ Return(t, Ret("HLTimedCache::do_check", "unit", NoKey, NoVal))
            /\ UNCHANGED last_saved
  /\ UNCHANGED <<hl, now, last_purged, store, beyond>>

\* app: h_unsaved.submaps_write().for_each(|mut submap| ..): the shard is
\* emptied with mem::replace and app_save spawns a task for every entry that
\* was in it
HL_app(t) ==
  /\ pc[t] = "HL_app"
  /\ LET k == op[t].i
     IN IF k \in Keys
          THEN /\ hl' = IF present(hl.unsaved[k])
                          THEN [hl EXCEPT !.unsaved[k] = NoEntry,
                                          !.tasks = @ \cup {[k |-> k, v |-> hl.unsaved[k], by |-> t,
                                                             at |-> "save_item_fn", ok |-> FALSE]}]
                          ELSE hl
               /\ op' = [op EXCEPT ![t].i = k + 1]
               /\ HLGoto(t, "HL_app")
          ELSE /\ HLGoto(t, "HL_run_async")
               /\ UNCHANGED <<hl, op>>
  /\ UNCHANGED beyond

\* tokio::run_async(app()) returns when the tasks that were spawned are done;
\* do_check returns and the two MutexGuards are dropped
HL_run_async(t) ==
  /\ pc[t] = "HL_run_async"
  /\ \A task \in hl.tasks : task.by # t
  /\ mtx' = [saved |-> Free, purged |-> Free]
  /\ Return(t, Ret("HLTimedCache::do_check", "unit", NoKey, NoVal))
  /\ UNCHANGED <<hl, now, last_saved, last_purged, store, beyond>>

\* a task of app_save: await!(save_item_fn(&k, v.get())); v.set_saved(true);
\* The save reports ok, which nothing reads
app_save_save_item_fn(task, ok) ==
  /\ task \in hl.tasks
  /\ task.at = "save_item_fn"
  /\ store' = IF ok THEN [store EXCEPT ![task.k] = task.v.data] ELSE store
  /\ hl' = [hl EXCEPT !.tasks = (@ \ {task}) \cup
                        {[task EXCEPT !.at = "lookup", !.ok = ok, !.v.saved = TRUE]}]
  /\ UNCHANGED <<pc, op, ret, calls, fcalls, snap, last, prev, now, last_saved, last_purged, mtx, beyond>>

\* let mut saved_b = l.get_mut(&k).unwrap(); *saved_b = true; drop(saved_b);
app_save_lookup(task) ==
  /\ task \in hl.tasks
  /\ task.at = "lookup"
  /\ CanWrite(hl.lock[task.k])
  /\ hl' = [hl EXCEPT !.lookup[task.k] = "true",
                      !.tasks = (@ \ {task}) \cup {[task EXCEPT !.at = "insert"]}]
  /\ UNCHANGED <<pc, op, ret, calls, fcalls, snap, last, prev, tc, beyond>>

\* s.insert(k, v);
app_save_insert(task) ==
  /\ task \in hl.tasks
  /\ task.at = "insert"
  /\ hl' = [hl EXCEPT !.saved[task.k] = task.v, !.tasks = @ \ {task}]
  /\ UNCHANGED <<pc, op, ret, calls, fcalls, snap, last, prev, tc, beyond>>

HL(t) ==
  \/ \E k \in Keys : HL_load_item(t, "HLTimedCache::map", k, NoVal)
  \/ \E k \in Keys, w \in Values : HL_load_item(t, "HLTimedCache::map_mut", k, w)
  \/ HL_load_item_fn(t)
  \/ HL_load_item_lookup(t)
  \/ HL_load_item_saved(t)
  \/ HL_lookup_get(t)
  \/ HL_map_data(t)
  \/ HL_map_mut_remove(t)
  \/ HL_map_mut_insert(t)
  \/ HL_map_mut_data(t)
  \/ \E f \in BOOLEAN, n \in Instants : HL_do_check(t, f, n)
  \/ HL_do_check_gate(t)
  \/ HL_app(t)
  \/ HL_run_async(t)

\* the tasks run on the threads of the runtime
Tasks ==
  \E task \in hl.tasks :
    \/ \E ok \in BOOLEAN : app_save_save_item_fn(task, ok)
    \/ app_save_lookup(task)
    \/ app_save_insert(task)

NextHL == (\E t \in Threads : HL(t)) \/ Tasks

\* HLTimedCacheInner::new, on a store that holds some of the keys
InitHL ==
  /\ Unbuilt
  /\ \E n \in 1..NumKeys : store = Stored(n)
  /\ now = 0
  /\ last_saved = 0
  /\ last_purged = 0
  /\ mtx = [saved |-> Free, purged |-> Free]
  /\ abs = [k \in Keys |-> NoVal]
  /\ track = "off"
  /\ calls = 0
  /\ overflow_checks = TRUE
  /\ Idle0

SpecHL == InitHL /\ [][NextHL]_vars

(* ------------------------------ properties ----------------------------- *)
\* what get(k) has to return when the last completed insert / remove of k left v
GetOf(k, v) == IF v # NoVal THEN Ret("get", "Some", k, v) ELSE Ret("get", "None", k, NoVal)

\* C1: on a single thread (no clear, retain or store through a reference since
\* the last insert / remove of k: recent[k] # Other), get(k) returns the value of the most recent
\* insert(k, v) that no remove(k) has followed (Some(v)), and None when k was
\* never inserted or its last operation was a remove; after insert(k, v1) and
\* insert(k, v2), get(k) yields v2.
C1_GetReturnsMostRecentInsert ==
  \A t \in Threads :
    (ret[t].op = "get" /\ recent[ret[t].key] # Other)
      => ret[t] = GetOf(ret[t].key, recent[ret[t].key])

\* a get that returned v2 right after insert(k, v2) had replaced another value
C1_Witness ==
  \E t \in Threads :
    /\ ret[t].op = "get" /\ ret[t].tag = "Some"
    /\ last[t].call.name = "get"
    /\ prev[t].call.name = "insert"
    /\ prev[t].call.key = ret[t].key
    /\ prev[t].call.val = ret[t].val
    /\ prev[t].pre[prev[t].call.mapi][ret[t].key] \notin {NoVal, ret[t].val}

\* the entries of a snapshot of all shards
EntriesOf(m) == {e \in Keys \X Values : \E s \in DOMAIN m : m[s][e[1]] = e[2]}
HasKey(m, k) == \E s \in DOMAIN m : m[s][k] # NoVal
ValueIn(m, k) == m[mapi_of(k)][k]
AllEmpty(m) == \A s \in DOMAIN m : m[s] = EmptyTable

\* C8: remove(k) returns Some((k, v)) with the stored value if k was present
\* and None otherwise; afterwards k is absent (contains_key(k) is false and
\* get(k) is None) and every other key is as it was; insert(k, v) followed by
\* remove(k) on a map that lacked k leaves contents and len() as they were.
C8_RemoveTakesTheEntryOut ==
  \A t \in Threads :
    LET l == last[t]
        p == prev[t]
        k == l.call.key
    IN /\ l.call.name = "remove" =>
            /\ l.ret = IF HasKey(l.pre, k) THEN Ret("remove", "Some", k, ValueIn(l.pre, k))
                                           ELSE Ret("remove", "None", k, NoVal)
            /\ ~HasKey(submaps, k)
            /\ \A s \in ShardIds(ncb), j \in Keys \ {k} : submaps[s][j] = l.pre[s][j]
       /\ (p.call.name = "remove" /\ l.call.key = p.call.key) =>
            /\ l.call.name = "contains_key" => l.ret.tag = "false"
            /\ l.call.name = "get" => l.ret.tag = "None"
       /\ (p.call.name = "insert" /\ ~HasKey(p.pre, p.call.key)
             /\ l.call.name = "remove" /\ k = p.call.key) =>
            /\ submaps = p.pre
            /\ Cardinality(EntriesOf(submaps)) = Cardinality(EntriesOf(p.pre))
            /\ l.ret = Ret("remove", "Some", k, p.call.val)

\* insert(k, v); remove(k) has run on a map that held another key only
C8_Witness ==
  \E t \in Threads :
    /\ prev[t].call.name = "insert"
    /\ last[t].call.name = "remove"
    /\ last[t].call.key = prev[t].call.key
    /\ last[t].ret.tag = "Some"
    /\ ~HasKey(prev[t].pre, prev[t].call.key)
    /\ EntriesOf(prev[t].pre) # {}
    /\ pc[t] = "idle"

\* C9: when clear() has returned every shard is empty; on an empty map len()
\* is 0, is_empty() is true and get(k) is None for every k.
C9_ClearEmptiesEveryShard ==
  \A t \in Threads :
    LET l == last[t]
    IN /\ l.call.name = "clear" => AllEmpty(submaps)
       /\ (l.call.name = "len" /\ AllEmpty(l.pre)) => l.ret = Ret("len", "usize", NoKey, 0)
       /\ (l.call.name = "is_empty" /\ AllEmpty(l.pre))
            => l.ret = Ret("is_empty", "true", NoKey, NoVal)
       /\ (l.call.name = "get" /\ AllEmpty(l.pre))
            => l.ret = Ret("get", "None", l.call.key, NoVal)

\* clear() has returned on a map that held entries in two shards
C9_Witness ==
  \E t \in Threads :
    /\ last[t].call.name = "clear"
    /\ pc[t] = "idle"
    /\ \E s1, s2 \in ShardIds(ncb) :
         s1 # s2 /\ last[t].pre[s1] # EmptyTable /\ last[t].pre[s2] # EmptyTable

\* C10: retain(pred) evaluates pred exactly once for every entry, under the
\* write lock of the entry's shard; afterwards the map holds exactly the
\* entries for which pred returned true, with the values pred left in them.
C10_RetainKeepsWhatPredAccepts ==
  \A t \in Threads :
    /\ pc[t] = "retain_body" =>
         /\ local[t] = [kind |-> "write", mapi |-> op[t].i]
         /\ lock[op[t].i] = [w |-> TRUE, r |-> 0]
    /\ (last[t].call.name = "retain" /\ pc[t] = "idle") =>
         LET pre == last[t].pre
             p == last[t].call.p
         IN /\ \A s \in ShardIds(ncb), k \in Keys :
                 submaps[s][k] = IF pre[s][k] # NoVal /\ pred_keep(p, k, pre[s][k])
                                   THEN pred_value(p, k, pre[s][k]) ELSE NoVal
            /\ \A k \in Keys : evals[t][k] = IF HasKey(pre, k) THEN 1 ELSE 0

\* retain has dropped one entry and kept another with the value pred stored
C10_Witness ==
  \E t \in Threads, j, k \in Keys :
    /\ last[t].call.name = "retain"
    /\ pc[t] = "idle"
    /\ HasKey(last[t].pre, j) /\ ~HasKey(submaps, j)
    /\ HasKey(last[t].pre, k) /\ HasKey(submaps, k)
    /\ ValueIn(submaps, k) # ValueIn(last[t].pre, k)

\* the call of thread t returns in this step
Returns(t) == pc[t] # "idle" /\ pc'[t] = "idle"

\* the lookup under the guard the call has taken: the result, the reference
\* handed out on a hit, the guard released on a miss, the tables untouched
LooksUp(t, kind) ==
  LET s == op[t].mapi
      k == op[t].key
  IN /\ local[t] = [kind |-> IF kind = "unique" THEN "write" ELSE "read", mapi |-> s]
     /\ submaps' = submaps
     /\ local'[t] = NoGuard
     /\ IF submaps[s][k] # NoVal
          THEN /\ ret'[t] = Ret(op[t].name, "Ok", k, submaps[s][k])
               /\ refs'[t] = refs[t] (+) SetToBag({Ref(kind, s, k)})
               /\ lock' = lock
          ELSE /\ ret'[t] = Ret(op[t].name, "InvalidKey", k, NoVal)
               /\ refs' = refs
               /\ lock' = [lock EXCEPT ![s] = IF kind = "unique" THEN Unlocked
                                              ELSE [@ EXCEPT !.r = @ - 1]]

\* one step of try_get (kind "shared") or try_get_mut (kind "unique") of thread t
TryStep(t, name, kind) ==
  /\ (pc[t] = "idle" /\ op'[t].name = name) =>
       LET s == op'[t].mapi
           free == IF kind = "unique" THEN lock[s] = Unlocked ELSE ~lock[s].w
       IN /\ s = mapi_of(op'[t].key)
          /\ local'[t] # NoGuard <=> free
          /\ ~free => lock' = lock
          /\ submaps' = submaps /\ refs' = refs
  /\ (op[t].name = name /\ Returns(t)) =>
       IF local[t] = NoGuard
         THEN /\ ret'[t] = Ret(name, "WouldBlock", op[t].key, NoVal)
              /\ submaps' = submaps /\ lock' = lock /\ refs' = refs /\ local' = local
         ELSE LooksUp(t, kind)

\* C5: try_get and try_get_mut never wait: the call can always start and
\* always return; it returns WouldBlock exactly when the shard lock cannot be
\* taken at the moment of the call, InvalidKey when the lock was taken and the
\* key is absent (the lock is released again), and Ok(guard) otherwise; in the
\* error cases tables and locks are as before the call.  While a thread holds
\* a write guard on k, try_get(k) of another thread is WouldBlock.
C5_TryGetNeverWaits ==
  /\ [](\A t \in Threads :
         /\ (pc[t] = "idle" /\ calls < MaxCalls) =>
              \A k \in Keys : ENABLED try_get_call(t, k) /\ ENABLED try_get_mut_call(t, k)
         /\ pc[t] = "try_get_body" => ENABLED try_get_body(t)
         /\ pc[t] = "try_get_mut_body" => ENABLED try_get_mut_body(t)
         /\ ret[t].op \in {"try_get", "try_get_mut"} =>
              ret[t].tag \in {"Ok", "InvalidKey", "WouldBlock"})
  /\ [][\A t \in Threads : /\ TryStep(t, "try_get", "shared")
                            /\ TryStep(t, "try_get_mut", "unique")]_vars

\* try_get(k) was refused while another thread holds a write guard on k
C5_Witness ==
  \E t, u \in Threads : \E g \in HeldRefs(u) :
    /\ t # u
    /\ g.kind = "unique"
    /\ ret[t] = Ret("try_get", "WouldBlock", g.key, NoVal)

\* one step of a timed variant of thread t
TimedStep(t, name, kind) ==
  /\ (pc[t] = "idle" /\ op'[t].name = name) =>
       /\ lock' = lock /\ local' = local /\ submaps' = submaps /\ refs' = refs
  /\ (op[t].name = name /\ Returns(t)) =>
       IF local[t] = NoGuard
         THEN /\ ret'[t] = Ret(name, "DidNotResolve", op[t].key, NoVal)
              /\ submaps' = submaps /\ lock' = lock /\ refs' = refs /\ local' = local
         ELSE LooksUp(t, kind)

GoiNames == {"get_or_insert", "get_or_insert_with"}

\* one step of get_or_insert / get_or_insert_with of thread t
GoiStep(t) ==
  LET s == op[t].mapi
      k == op[t].key
  IN /\ pc[t] = "get_or_insert_check" =>
          /\ local[t] = [kind |-> "read", mapi |-> s]
          /\ submaps' = submaps
          /\ fcalls'[t] = 0
          /\ IF submaps[s][k] # NoVal
               THEN /\ ret'[t] = Ret(op[t].name, "Shared", k, submaps[s][k])
                    /\ refs'[t] = refs[t] (+) SetToBag({Ref("shared", s, k)})
                    /\ lock' = lock
               ELSE /\ pc'[t] = "get_or_insert_relock"
                    /\ refs' = refs
                    /\ local'[t] = NoGuard
     /\ pc[t] = "get_or_insert_relock" =>
          /\ lock[s] = Unlocked
          /\ local'[t] = [kind |-> "write", mapi |-> s]
          /\ submaps' = submaps
     /\ pc[t] = "get_or_insert_store" =>
          /\ local[t] = [kind |-> "write", mapi |-> s]
          /\ submaps' = IF submaps[s][k] # NoVal THEN submaps
                        ELSE [submaps EXCEPT ![s][k] = op[t].val]
          /\ fcalls'[t] = IF submaps[s][k] = NoVal /\ op[t].name = "get_or_insert_with"
                            THEN 1 ELSE 0
          /\ ret'[t] = Ret(op[t].name, "Unique", k, submaps'[s][k])
          /\ refs'[t] = refs[t] (+) SetToBag({Ref("unique", s, k)})
          /\ lock' = lock

\* C7: get_or_insert / get_or_insert_with return a shared guard and write
\* nothing if the key is present under the read lock; otherwise they take the
\* write lock and check again.  Of concurrent callers on one absent key exactly
\* one stores its default, no stored value is overwritten and every guard
\* dereferences to the stored value; the closure of get_or_insert_with runs at
\* most once per call and only when the key is absent at the second check; any
\* two calls on one key return the same value.
C7_GetOrInsertStoresOnce ==
  /\ [](\A t \in Threads :
         /\ fcalls[t] <= 1
         /\ ret[t].op \in GoiNames =>
              /\ ret[t].tag \in {"Shared", "Unique"}
              /\ ret[t].val = ValueIn(submaps, ret[t].key)
         /\ \A u \in Threads :
              (ret[t].op \in GoiNames /\ ret[u].op \in GoiNames /\ ret[t].key = ret[u].key)
                => ret[t].val = ret[u].val)
  /\ [][/\ \A t \in Threads : pc'[t] # pc[t] => GoiStep(t)
        /\ \A s \in ShardIds(ncb), k \in Keys :
             submaps[s][k] # NoVal => submaps'[s][k] = submaps[s][k]]_vars

\* two threads have run into each other on one absent key: both saw it absent
\* under the read lock and took the write path, the first stored its default,
\* the second found that value at its second check and ran no closure
C7_Witness ==
  \E t, u \in Threads :
    /\ t # u
    /\ ret[t].op = "get_or_insert_with"
    /\ ret[u].op \in GoiNames
    /\ ret[t].key = ret[u].key
    /\ ret[t].tag = "Unique" /\ ret[u].tag = "Unique"
    /\ expect[t].tag = "Found" /\ expect[u].tag = "Stored"
    /\ ret[t].val = ret[u].val
    /\ fcalls[t] = 0

\* C2: when several threads insert pairwise distinct keys concurrently (in one
\* shard or in several), no insert is lost: once an insert of k has returned,
\* the tables hold its value for k and every get(k) that returns afterwards
\* yields Some of the value the last returned insert of k wrote.
C2_NoInsertIsLost ==
  /\ [](\A k \in Keys :
         recent[k] # NoVal => /\ ValueIn(submaps, k) = recent[k]
                              /\ \A s \in ShardIds(ncb) \ {mapi_of(k)} : submaps[s][k] = NoVal)
  /\ [][\A t \in Threads :
         (pc[t] = "get_body" /\ Returns(t) /\ recent[op[t].key] # NoVal)
           => ret'[t] = Ret("get", "Some", op[t].key, recent[op[t].key])]_vars

\* two threads have inserted different keys of one shard, all inserts have
\* returned, and a get of the other thread's key has returned its value
C2_Witness ==
  \E t, u \in Threads : \E j \in Keys :
    /\ t # u
    /\ \A w \in Threads : pc[w] = "idle"
    /\ ret[u].op = "insert"
    /\ ret[t] = Ret("get", "Some", ret[u].key, ret[u].val)
    /\ j # ret[t].key
    /\ mapi_of(j) = mapi_of(ret[t].key)
    /\ recent[j] # NoVal

\* the keyed operations whose result the lock order prescribes
Keyed == {"insert", "get", "get_mut", "remove", "contains_key"}

\* C3: the operations on one shard take effect in the order in which they
\* acquired the shard's lock: every call returns what the map defined by that
\* order prescribes, and a shard that no call is writing to holds that map.
\* When threads insert one key with different values, get(k) yields the value
\* of the insert that took the write lock last.
C3_ShardOpsTakeEffectInLockOrder ==
  /\ \A t \in Threads : ret[t].op \in Keyed => ret[t] = expect[t]
  /\ \A s \in ShardIds(ncb) :
       (\A t \in Threads : local[t] # [kind |-> "write", mapi |-> s]) =>
         \A k \in Keys : submaps[s][k] = IF mapi_of(k) = s THEN abs[k] ELSE NoVal

\* two threads have inserted one key with different values and a get has
\* returned the value of the other insert, the one that locked last
C3_Witness ==
  \E t, u \in Threads :
    /\ t # u
    /\ ret[t].op = "insert"
    /\ ret[u] = Ret("get", "Some", ret[t].key, abs[ret[t].key])
    /\ ret[u].val # ret[t].val

\* the guards into shard s that thread t holds: in references of the kinds ks
RefsInto(t, s, ks) ==
  LET hs == {g \in HeldRefs(t) : g.mapi = s /\ g.kind \in ks}
  IN IF hs = {} THEN 0 ELSE BagCardinality([g \in hs |-> refs[t][g]])

\* the iterators of thread t whose read guard of shard s is alive: it lives in
\* the iterator itself or in a reference the iterator has yielded
IterGuards(t, s) ==
  {g.gen : g \in {h \in HeldRefs(t) : h.kind = "iterref" /\ h.mapi = s}}
    \cup (IF iters[t].live /\ iters[t].c_mapi = s THEN {iters[t].gen} ELSE {})

ReadGuards(t, s) ==
  RefsInto(t, s, {"shared", "chunk"}) + Cardinality(IterGuards(t, s))
    + (IF local[t] = [kind |-> "read", mapi |-> s] THEN 1 ELSE 0)

WriteGuards(t, s) ==
  RefsInto(t, s, {"unique", "chunk_mut"})
    + (IF local[t] = [kind |-> "write", mapi |-> s] THEN 1 ELSE 0)

RECURSIVE SumOver(_, _, _)
SumOver(F(_, _), ts, s) ==
  IF ts = {} THEN 0
  ELSE LET t == CHOOSE x \in ts : TRUE IN F(t, s) + SumOver(F, ts \ {t}, s)

\* C4: while a guarded reference into shard s exists (from get, get_mut, index,
\* index_mut, the try_get family, get_or_insert[_with], iter, chunks or
\* chunks_write) the lock of s is held in the matching mode: the read count of
\* s is the number of live read guards, the lock is write-held iff one write
\* guard is alive, a write guard is alone on its shard, and with the last guard
\* gone the lock is free.
C4_GuardsHoldTheShardLock ==
  \A s \in ShardIds(ncb) :
    LET nr == SumOver(ReadGuards, Threads, s)
        nw == SumOver(WriteGuards, Threads, s)
    IN /\ lock[s].r = nr
       /\ lock[s].w <=> nw = 1
       /\ nw <= 1
       /\ nw = 1 => nr = 0

\* a reference yielded by an iterator keeps its shard read-locked after the
\* iterator has moved on, while another thread holds a unique reference
C4_Witness ==
  \E t, u \in Threads : \E g \in HeldRefs(t), h \in HeldRefs(u) :
    /\ t # u
    /\ g.kind = "iterref"
    /\ iters[t].c_mapi # g.mapi
    /\ lock[g.mapi].r = 1
    /\ h.kind = "unique"
    /\ lock[h.mapi].w

(* --------------------------- alter, len, shards ------------------------ *)
\* the number of entries of the shard tables m
CountOf(m) == Cardinality({e \in (DOMAIN m) \X Keys : m[e[1]][e[2]] # NoVal})

\* C11: alter(f) applies f exactly once to every entry of every shard and
\* leaves the key set and len() unchanged; a get(k) that follows returns f of
\* the value k had (4i after insert(i, 2i) and a doubling alter).
C11_AlterAppliesFOnceToEveryEntry ==
  \A t \in Threads :
    LET l == last[t]
        p == prev[t]
    IN /\ pc[t] = "alter_body" =>
            /\ local[t] = [kind |-> "write", mapi |-> op[t].i]
            /\ lock[op[t].i] = [w |-> TRUE, r |-> 0]
       /\ (l.call.name = "alter" /\ pc[t] = "idle") =>
            /\ \A s \in ShardIds(ncb), k \in Keys :
                 submaps[s][k] = IF l.pre[s][k] # NoVal
                                   THEN alter_value(l.call.p, k, l.pre[s][k]) ELSE NoVal
            /\ \A k \in Keys : evals[t][k] = IF HasKey(l.pre, k) THEN 1 ELSE 0
            /\ \A k \in Keys : HasKey(submaps, k) <=> HasKey(l.pre, k)
            /\ CountOf(submaps) = CountOf(l.pre)
       /\ (p.call.name = "alter" /\ l.call.name = "len") =>
            l.ret = Ret("len", "usize", NoKey, CountOf(p.pre))
       /\ (p.call.name = "alter" /\ l.call.name = "get") =>
            l.ret = IF HasKey(p.pre, l.call.key)
                      THEN Ret("get", "Some", l.call.key,
                               alter_value(p.call.p, l.call.key, ValueIn(p.pre, l.call.key)))
                      ELSE Ret("get", "None", l.call.key, NoVal)

\* insert(k, v); a doubling alter; get(k) has returned 2 * v
C11_Witness ==
  \E t \in Threads :
    /\ prev[t].call.name = "alter"
    /\ prev[t].call.p = [mul |-> 2, add |-> 0]
    /\ last[t].call.name = "get"
    /\ HasKey(prev[t].pre, last[t].call.key)
    /\ last[t].ret.val = 2 * ValueIn(prev[t].pre, last[t].call.key)
    /\ pc[t] = "idle"

\* the keys inserted and not removed since
LiveKeys == {k \in Keys : recent[k] # NoVal}

\* C12: with no concurrent mutation len() is the number of distinct keys
\* inserted and not removed, is_empty() is true exactly when that number is 0,
\* and the sizes of the shards that chunks() / chunks_write() yield add up to
\* that number, which is len().
C12_LenIsTheSumOfTheShardSizes ==
  \A t \in Threads :
    LET l == last[t]
    IN /\ (l.call.name = "len" /\ pc[t] = "idle") =>
            l.ret = Ret("len", "usize", NoKey, Cardinality(LiveKeys))
       /\ (l.call.name = "is_empty" /\ pc[t] = "idle") =>
            l.ret = Ret("is_empty", IF Cardinality(LiveKeys) = 0 THEN "true" ELSE "false",
                        NoKey, NoVal)
       /\ (l.call.name \in {"chunks", "chunks_write"} /\ chs[t].kind # "none"
             /\ chs[t].i = ncm(ncb)) =>
            /\ chs[t].sum = Cardinality(LiveKeys)
            /\ chs[t].sum = CountOf(submaps)

\* two keys are in the map and a walk over chunks_write() has yielded every shard
C12_Witness ==
  \E t \in Threads :
    /\ Cardinality(LiveKeys) = 2
    /\ last[t].call.name = "chunks_write"
    /\ chs[t].kind = "chunk_mut"
    /\ chs[t].i = ncm(ncb)
    /\ chs[t].sum = 2

(* ------------------------ construction, addressing --------------------- *)
\* the calls that address a shard by key
Faulted(t) == ret[t].op \in KeyedNames /\ ret[t].tag \in {"panic", "ub"}

\* C13: for a map built with 2^k shards determine_map returns for every key an
\* index in [0, 2^k), the top k bits of the nonced hash, the same on every
\* call; the unchecked shard access is in bounds, and a key is stored in at
\* most one shard, the one every operation on it uses.
C13_DetermineMapIsInBounds ==
  (Built /\ DOMAIN submaps = ShardIds(ncb)) =>
     /\ \A k \in Keys :
          /\ mapi_of(k) \in ShardIds(ncb)
          /\ mapi_of(k) = Hash(hash_nonce, k) \div Pow2(ptr_size_bits - ncb)
          /\ \A s \in DOMAIN submaps : submaps[s][k] # NoVal => s = mapi_of(k)
     /\ \A t \in Threads : ~Faulted(t) /\ (op[t].key # NoKey => op[t].mapi = mapi_of(op[t].key))

\* C14: new(0) creates exactly one shard, every key is routed to index 0, and
\* insert, get, remove, contains_key and len keep their contracts: no call
\* fails, and get returns what the last insert or remove of the key left.
C14_NewZeroIsASingleShardMap ==
  (Built /\ ncb = 0) =>
     /\ DOMAIN submaps = {0}
     /\ \A k \in Keys : mapi_of(k) = 0
     /\ \A t \in Threads :
          /\ ~Faulted(t)
          /\ ret[t].op = "get" => ret[t] = GetOf(ret[t].key, recent[ret[t].key])
          /\ ret[t].op = "len" => ret[t].val = Cardinality({k \in Keys : recent[k] # NoVal})

\* C15: new(k) and with_capacity(k, c) create exactly 2^k empty shards when
\* 2^k fits a signed machine word and panic otherwise.
C15_ConstructorsBuildTwoToTheKShards ==
  \A t \in Threads :
    ret[t].op \in {"new", "with_capacity"} =>
      IF Pow2(ret[t].val) <= isize_MAX
        THEN /\ ret[t].tag = "Self"
             /\ ncb = ret[t].val
             /\ DOMAIN submaps = 0..(Pow2(ret[t].val) - 1)
             /\ \A s \in DOMAIN submaps : submaps[s] = EmptyTable /\ lock[s] = Unlocked
        ELSE ret[t].tag = "panic"

(* -------------------------------- iter --------------------------------- *)
\* next() of the iterator of t has returned None
Exhausted(t) == iters[t].live /\ ret[t] = Ret("next", "None", NoKey, NoVal)

\* what is left for the iterator of t to do: shards to lock and entries to yield
IterMeasure(it) == (ncm(ncb) - it.c_map_index) * (NumKeys + 1) + Cardinality(it.todo)

IterState(t) ==
  LET it == iters[t]
  IN it.live =>
       /\ it.c_map_index \in 0..ncm(ncb)
       /\ it.c_mapi = it.c_map_index - 1
       /\ it.todo \subseteq it.due
       /\ \A k \in Keys : /\ it.seen[k] <= 1
                          /\ it.seen[k] = 1 <=> (k \in it.due /\ k \notin it.todo)
       /\ it.c_mapi # NoShard =>
            {k \in Keys : submaps[it.c_mapi][k] # NoVal} = {k \in it.due : mapi_of(k) = it.c_mapi}
       /\ Exhausted(t) =>
            /\ it.c_map_index = ncm(ncb)
            /\ it.todo = {}
            /\ it.quiet => Cardinality({k \in Keys : it.seen[k] = 1}) = CountOf(it.pre)

IterStep(t) ==
  (iters[t].live /\ iters'[t].live /\ iters'[t].gen = iters[t].gen /\ iters'[t] # iters[t]) =>
     /\ IterMeasure(iters'[t]) < IterMeasure(iters[t])
     /\ \/ iters'[t].c_map_index = iters[t].c_map_index
        \/ /\ iters'[t].c_map_index = iters[t].c_map_index + 1
           /\ iters'[t].c_mapi = iters[t].c_map_index
           /\ iters'[t].due \ iters[t].due = {k \in Keys : submaps[iters'[t].c_mapi][k] # NoVal}

\* C16: iter() visits every shard once, in increasing index order, yields
\* exactly once every entry that is in a shard when the iterator read-locks
\* it, and terminates; with no concurrent mutation it yields len() entries.
C16_IterYieldsEachEntryOnce ==
  /\ [](\A t \in Threads : IterState(t))
  /\ [][\A t \in Threads : IterStep(t)]_vars
  /\ \A t \in Threads : iters[t].live ~> (~iters[t].live \/ Exhausted(t))

\* an exhausted iterator has yielded an entry that was inserted after the
\* iterator was made
C16_Witness ==
  \E t \in Threads, k \in Keys :
    /\ Exhausted(t)
    /\ iters[t].seen[k] = 1
    /\ ~HasKey(iters[t].pre, k)
    /\ \E j \in Keys \ {k} : iters[t].seen[j] = 1

(* ------------------------------- index --------------------------------- *)
\* the return of a lookup that holds the guard of kind: on a hit the guard goes
\* into the reference handed out, on a miss it is released; the tables are
\* not touched
GuardedLookup(t, kind, hit, miss) ==
  LET s == op[t].mapi
      k == op[t].key
  IN /\ s = mapi_of(k)
     /\ local[t] = [kind |-> IF kind = "unique" THEN "write" ELSE "read", mapi |-> s]
     /\ submaps' = submaps
     /\ local'[t] = NoGuard
     /\ IF submaps[s][k] # NoVal
          THEN /\ ret'[t] = Ret(op[t].name, hit, k, submaps[s][k])
               /\ refs'[t] = refs[t] (+) SetToBag({Ref(kind, s, k)})
               /\ lock' = lock
          ELSE /\ ret'[t] = Ret(op[t].name, miss, k, NoVal)
               /\ refs' = refs
               /\ lock' = [lock EXCEPT ![s] = IF kind = "unique" THEN Unlocked
                                              ELSE [@ EXCEPT !.r = @ - 1]]

IndexStep(t) ==
  Returns(t) =>
    /\ op[t].name = "get" => GuardedLookup(t, "shared", "Some", "None")
    /\ op[t].name = "index" => GuardedLookup(t, "shared", "Ref", "panic")
    /\ op[t].name = "get_mut" => GuardedLookup(t, "unique", "Some", "None")
    /\ op[t].name = "index_mut" => GuardedLookup(t, "unique", "Ref", "panic")

\* C17: index(q) and index_mut(q) hand out the guard get(q) / get_mut(q) hand
\* out when the key is present and panic when it is absent; the panic leaves
\* the tables as they were and no shard lock held.
C17_IndexPanicsOnAMissingKey ==
  /\ [](/\ \A t \in Threads :
            /\ ret[t].tag = "panic" =>
                 /\ ret[t].op \in {"index", "index_mut"}
                 /\ ~HasKey(submaps, ret[t].key)
                 /\ local[t] = NoGuard
            /\ (ret[t].op \in {"index", "index_mut"} /\ ret[t].tag = "Ref") =>
                 ret[t].val = ValueIn(submaps, ret[t].key)
        /\ (\A t \in Threads : pc[t] = "idle" /\ refs[t] = EmptyBag) =>
              \A s \in ShardIds(ncb) : lock[s] = Unlocked)
  /\ [][\A t \in Threads : IndexStep(t)]_vars

\* index_mut has panicked and index has handed out a reference, which is the
\* only guard alive
C17_Witness ==
  \E t, u \in Threads, k \in Keys :
    /\ ret[t] = Ret("index_mut", "panic", ret[t].key, NoVal)
    /\ ret[u] = Ret("index", "Ref", k, ValueIn(submaps, k))
    /\ refs[u] = SetToBag({Ref("shared", mapi_of(k), k)})
    /\ refs[t] = EmptyBag
    /\ \A s \in ShardIds(ncb) : lock[s] = IF s = mapi_of(k) THEN [w |-> FALSE, r |-> 1]
                                                          ELSE Unlocked

(* ----------------------- TimedCache: clean bit ------------------------- *)
\* thread t takes a step of a call of name
StepOf(t, name) == pc'[t] # pc[t] /\ (op[t].name = name \/ op'[t].name = name)

\* the entries that are in the storage keep value, inserted_at and clean bit
EntriesKept ==
  \A s \in DOMAIN submaps : \A k \in cached(s) : submaps'[s][k] = submaps[s][k]

\* the guard a thread holds on the shard of the key of its call
Guards(t, kind) == local[t] = [kind |-> kind, mapi |-> op[t].mapi]

CleanBitStep(t) ==
  /\ pc[t] = "load_item_insert" /\ pc'[t] # pc[t]
       => submaps'[op[t].mapi][op[t].key].clean
  /\ pc[t] = "map_mut_f"
       => Guards(t, "write") /\ ~submaps[op[t].mapi][op[t].key].clean
  /\ pc[t] = "map_f" => Guards(t, "read")
  /\ StepOf(t, "map") => EntriesKept

\* C18: an entry that load_item creates is clean; map_mut holds the write guard
\* of the shard and has set the clean bit to false when it applies f; map
\* applies f under the read guard, and no step of a map call changes the value,
\* the clean bit or inserted_at of an entry of the cache.
C18_MapLeavesEveryEntryAlone == [][\A t \in Threads : CleanBitStep(t)]_vars

(* ----------------------- TimedCache: do_check --------------------------- *)
\* an entry to be saved
dirty(e) == occupied(e) /\ ~e.clean

\* thread u has not called anything yet
Fresh(u) == pc[u] = "idle" /\ ret[u] = NoRet

\* the save gate of do_check decides for the pass
SaveGate(t) ==
  pc[t] = "do_check_save" /\ pc'[t] # pc[t]
    => /\ Guards(t, "none") /\ mtx.saved = t /\ mtx.purged = t
       /\ pc'[t] = "do_check_save_lock" <=> op[t].inst - last_saved > save_interval
       /\ pc'[t] = "do_check_save_lock" => last_saved' = op[t].inst /\ op'[t].i = 0

\* the pass has write-locked a shard and handles its entries
SavePass(t) ==
  pc[t] = "do_check_save_body" /\ pc'[t] # pc[t]
    => LET s == op[t].i IN
       /\ local[t] = [kind |-> "write", mapi |-> s]
       /\ \A k \in Keys :
            LET e == submaps[s][k] IN
            /\ evals'[t][k] = (IF dirty(e) THEN 1 ELSE evals[t][k])
            /\ dirty(e) => evals[t][k] = 0
            /\ submaps'[s][k] = (IF dirty(e) /\ k \in op'[t].saved
                                   THEN [e EXCEPT !.clean = TRUE] ELSE e)
            /\ dirty(e) /\ k \in op'[t].saved => store'[k] = e.v
       /\ \A r \in DOMAIN submaps \ {s} : submaps'[r] = submaps[r]
       /\ pc'[t] = (IF s + 1 < ncm(ncb) THEN "do_check_save_lock" ELSE "do_check_purge")

\* the pass ends after a run of calls that did not overlap: what is still to be
\* saved has been handed to save, which returned false
SavePassEnd(t) ==
  /\ pc[t] = "do_check_save_body" /\ pc'[t] = "do_check_purge"
  /\ \A u \in Threads \ {t} : Fresh(u)
  => \A s \in DOMAIN submaps : \A k \in Keys :
       dirty(submaps'[s][k]) => evals'[t][k] = 1 /\ k \notin op'[t].saved

\* C19: when do_check finds now - last_saved > save_interval (and only then) it
\* runs the save pass: it write-locks one shard after the other and calls
\* save once on every entry that is dirty then and on no clean entry, and the
\* entry becomes clean iff save returned true.  After calls of map_mut that
\* were followed by such a do_check, every dirty entry has had save called, so
\* if save always returns true every entry is clean.
C19_SavePassSavesEveryDirtyEntryOnce ==
  [][\A t \in Threads : SaveGate(t) /\ SavePass(t) /\ SavePassEnd(t)]_vars

\* a do_check that followed two map_mut ends its save pass: one save
\* succeeded, the other did not
C19_Witness ==
  /\ pc[Main] = "do_check_purge"
  /\ \A u \in Threads \ {Main} : Fresh(u)
  /\ \A k \in Keys : evals[Main][k] = 1
  /\ \E k \in Keys : k \in op[Main].saved /\ submaps[mapi_of(k)][k].clean
  /\ \E k \in Keys : k \notin op[Main].saved /\ dirty(submaps[mapi_of(k)][k])

(* ----------------------- TimedCache: eviction --------------------------- *)
\* an entry that is clean and older than valid_duration at the instant
Expired(e, inst) == occupied(e) /\ e.clean /\ inst - e.at > valid_duration

\* the purge gate of do_check decides for the pass
PurgeGate(t) ==
  pc[t] = "do_check_purge" /\ pc'[t] # pc[t]
    => /\ pc'[t] = "do_check_purge_lock"
            <=> op[t].inst - last_purged > valid_check_interval
       /\ pc'[t] = "do_check_purge_lock" => last_purged' = op[t].inst /\ op'[t].i = 0

\* the pass has write-locked a shard and retains its entries
PurgePass(t) ==
  pc[t] = "do_check_purge_body" /\ pc'[t] # pc[t]
    => LET s == op[t].i IN
       /\ local[t] = [kind |-> "write", mapi |-> s]
       /\ \A k \in Keys :
            submaps'[s][k] = (IF Expired(submaps[s][k], op[t].inst)
                               THEN Vacant ELSE submaps[s][k])
       /\ \A r \in DOMAIN submaps \ {s} : submaps'[r] = submaps[r]

\* whatever step takes an entry out of the cache is the purge pass of a do_check
\* on an expired entry
Evictions ==
  \A s \in DOMAIN submaps : \A k \in cached(s) :
    ~occupied(submaps'[s][k])
      => /\ submaps[s][k].clean
         /\ \E t \in Threads : /\ pc[t] = "do_check_purge_body" /\ pc'[t] # pc[t]
                                 /\ op[t].i = s
                                 /\ Expired(submaps[s][k], op[t].inst)

\* C20: when do_check finds now - last_purged > valid_check_interval (and only
\* then) it runs the purge pass, which removes from every shard exactly the
\* entries that are clean and whose age now - inserted_at exceeds
\* valid_duration and keeps all others; in no interleaving with map and
\* map_mut is an entry removed while its clean bit is false.
C20_PurgeEvictsOnlyCleanExpiredEntries ==
  [][Evictions /\ \A t \in Threads : PurgeGate(t) /\ PurgePass(t)]_vars

\* a do_check has purged: the entry a map of another thread had loaded is gone,
\* an entry as old that is still to be saved is kept
C20_Witness ==
  /\ pc[Main] = "do_check_return"
  /\ \E u \in Threads \ {Main} : \E k \in Keys :
       /\ ret[u].op = "map" /\ ret[u].tag = "T" /\ ret[u].key = k
       /\ ~occupied(submaps[mapi_of(k)][k])
  /\ \E s \in DOMAIN submaps : \E k \in cached(s) :
       /\ ~submaps[s][k].clean
       /\ op[Main].inst - submaps[s][k].at > valid_duration

(* --------------------- TimedCache: the external store ------------------ *)
\* what the cache holds for k
cache_entry(k) == submaps[mapi_of(k)][k]

\* every clean entry holds what the external store holds for its key
CleanIsStored ==
  \A k \in Keys : occupied(cache_entry(k)) /\ cache_entry(k).clean
                     => cache_entry(k).v = store[k]

\* thread t, holding the write lock of the shard of k, ends the save of k with
\* success
SavedBy(t, k) ==
  /\ pc[t] = "do_check_save_body" /\ pc'[t] # pc[t]
  /\ op[t].i = mapi_of(k) /\ local[t] = [kind |-> "write", mapi |-> op[t].i]
  /\ k \in op'[t].saved /\ store'[k] = cache_entry(k).v

\* thread t applies the closure of map_mut to the entry of k
WrittenBy(t, k) == pc[t] = "map_mut_f" /\ pc'[t] # pc[t] /\ op[t].key = k

\* an entry that is to be saved stays in the cache, keeps its value unless
\* map_mut writes it, and becomes clean only in the step in which its save
\* succeeds
DirtyUntilSaved ==
  \A k \in Keys :
    LET e == cache_entry(k)
        e2 == submaps'[mapi_of(k)][k]
    IN dirty(e) =>
         /\ occupied(e2)
         /\ e2.v # e.v => \E t \in Threads : WrittenBy(t, k)
         /\ e2.clean => e2.v = e.v /\ \E t \in Threads : SavedBy(t, k)

\* C21: in every interleaving of map, map_mut and do_check a clean entry holds
\* the value the external store holds for its key (what load returned, or what
\* the last successful save was given); the clean bit is set only in the
\* critical section in which save returned true, so an entry that map_mut has
\* modified is never marked clean unsaved and its modification is never lost.
C21_CleanEntriesEqualTheStore == []CleanIsStored /\ [][DirtyUntilSaved]_vars

(* ------------------------ TimedCache: load race ------------------------- *)
\* thread t calls load_item_fn in this step
Loads(t) == pc[t] = "load_item_fn" /\ pc'[t] # pc[t]

\* thread t inserts what it has loaded in this step
Inserts(t) == pc[t] = "load_item_insert" /\ pc'[t] # pc[t]

\* load is called, and its result inserted, for a key that is missing, by a
\* thread that holds the write lock of the shard of the key
LoadStep(t) ==
  /\ Loads(t) => /\ ~occupied(cache_entry(op[t].key))
                 /\ Guards(t, "write")
                 /\ \A u \in Threads \ {t} :
                      ~(pc[u] = "load_item_insert" /\ op[u].key = op[t].key)
  /\ Inserts(t) => ~occupied(cache_entry(op[t].key))

\* C22: load is called for a key only while the key is missing and under the
\* write lock of its shard; of two threads that call map / map_mut for the same
\* missing key only one loads and inserts, the other finds the entry when it
\* looks again and neither reloads nor overwrites it.
C22_OnlyOneThreadLoadsAMissingKey == [][\A t \in Threads : LoadStep(t)]_vars

(* ------------------------ TimedCache: failed load ----------------------- *)
\* the external store has nothing for the key of the call of t
LoadFails(t) == op[t].key \in Keys /\ store[op[t].key] = NoVal

\* no thread holds a guard: every shard is unlocked
NoGuardLeft == (\A t \in Threads : local[t] = NoGuard) => \A s \in DOMAIN lock : lock[s] = Unlocked

\* f is not reached on a key that could not be loaded, and a thread that has
\* returned holds no guard
FailedLoadState ==
  /\ NoGuardLeft
  /\ \A t \in Threads :
       /\ pc[t] \in {"load_item_insert", "map_f", "map_mut_mark", "map_mut_f"} => ~LoadFails(t)
       /\ pc[t] = "idle" => local[t] = NoGuard

\* a failed load and the unwrap that follows it change nothing
FailedLoadStep(t) ==
  /\ Loads(t) /\ LoadFails(t)
       => submaps' = submaps /\ lock' = lock /\ pc'[t] = after_load(op[t].name)
  /\ pc[t] \in {"map_get", "map_mut_get"} /\ pc'[t] # pc[t] /\ LoadFails(t)
       => /\ submaps' = submaps /\ lock' = lock
          /\ pc'[t] = "idle"
          /\ ret'[t] = Ret(op[t].name, "panic", op[t].key, NoVal)

\* C23: when load(k) returns None, load_item inserts nothing and changes no
\* entry, and the map / map_mut that called it panics at the unwrap: f is not
\* called and the panicking thread holds no shard lock.
C23_FailedLoadPanicsWithoutALock ==
  []FailedLoadState /\ [][\A t \in Threads : FailedLoadStep(t)]_vars

\* a map_mut of a key the store lacks has panicked next to a cached entry that
\* another map_mut has written
C23_Witness ==
  /\ \E t \in Threads : ret[t].op = "map_mut" /\ ret[t].tag = "panic" /\ pc[t] = "idle"
  /\ \E k \in Keys : dirty(cache_entry(k))
  /\ \A s \in DOMAIN lock : lock[s] = Unlocked

(* ---------------------------- ConcurrentStack -------------------------- *)
\* the elements of a sequence
Range(q) == {q[i] : i \in DOMAIN q}

\* no element occurs twice
Distinct(q) == \A i, j \in DOMAIN q : q[i] = q[j] => i = j

\* the largest element of a non-empty set of numbers
Max(S) == CHOOSE x \in S : \A y \in S : y <= x

\* the nodes linked from head are the stack that the successful compare-and-sets
\* define, no value is on the stack twice or on it and popped, no value is
\* popped twice, and what is popped or on the stack has been pushed; when no
\* call runs, what has been pushed is on the stack or popped
StackState ==
  /\ linked(head, Cardinality(Addrs)) = hist.abs
  /\ ~hist.uaf
  /\ Distinct(hist.abs \o hist.popped)
  /\ Range(hist.abs) \cup Range(hist.popped) \subseteq hist.pushed
  /\ (\A t \in Threads : pc[t] = "idle")
       => Range(hist.abs) \cup Range(hist.popped) = hist.pushed

\* pop unlinks the top of the stack and returns its value, or finds the stack
\* empty; alone, a thread pops its latest push that is not popped yet
StackStep(t) ==
  /\ pc[t] = "pop_load" /\ pc'[t] # pc[t]
       => (ret'[t] = Ret("pop", "None", NoKey, NoVal) <=> head = Null)
          /\ (head = Null <=> hist.abs = <<>>)
  /\ pc[t] = "pop_cas" /\ pc'[t] = "pop_read"
       => /\ hist.abs # <<>>
          /\ heap[op[t].seen] = Node(Head(hist.abs), head')
  /\ pc[t] = "pop_read" /\ pc'[t] # pc[t]
       => /\ ret'[t] = Ret("pop", "Some", NoKey, heap[op[t].seen].data)
          /\ ret'[t].val \in hist.pushed \ Range(hist.popped)
          /\ (\A u \in Threads \ {t} : Fresh(u))
               => ret'[t].val = Max(hist.pushed \ Range(hist.popped))

\* C24: in every interleaving of push and pop a popped value has been pushed,
\* no value is returned by two pops, pop returns None only when head is null
\* at its load, and once all calls have returned the popped values and the
\* values on the stack are exactly the pushed ones; on one thread pop returns
\* the latest pushed value that is not popped yet.
C24_StackPopsWhatWasPushedOnce == []StackState /\ [][\A t \in Threads : StackStep(t)]_vars

\* two threads have pushed and one value has been popped; its node is freed
C24_Witness ==
  /\ \A t \in Threads : pc[t] = "idle" /\ ret[t] # NoRet
  /\ Len(hist.popped) = 1 /\ Len(hist.abs) = 1
  /\ hist.dropped # {}

\* the addresses of the nodes linked from a pointer
RECURSIVE linked_at(_, _)
linked_at(p, n) ==
  IF p = Null \/ n = 0 \/ heap[p].kind # "node" THEN {}
  ELSE {p} \cup linked_at(heap[p].next, n - 1)

\* C25: pop moves the value out of the unlinked node to its caller and the
\* deferred destruction releases the node shell only: what is handed to the
\* reclaimer is unlinked (no node is destroyed before the compare-and-set that
\* unlinks it), no memory is freed twice, and the reclaimer destroys no value
\* that a pop has moved out to its caller (no pushed value is destroyed twice).
C25_PopMovesTheValueOutOnce ==
  /\ \A d \in deferred : d.addr \notin linked_at(head, Cardinality(Addrs))
  /\ ~hist.dfree
  /\ hist.dropped \cap Range(hist.popped) = {}

(* ------------------------------- NestedMap ------------------------------ *)
\* the value get finds for key k in the trie, NoVal if it finds none
lookup(k) ==
  LET a == find(Root, k, Cardinality(Addrs))
  IN IF a = Null THEN NoVal ELSE heap[a].value

RemoveStep(t) ==
  /\ pc[t] \in {"Table_remove", "Table_remove_cas"}
  /\ <<pc[t], op[t]>>' # <<pc[t], op[t]>>

DistinctInsertsDone ==
  /\ \A t \in Threads : pc[t] = "idle"
  /\ hist.rem = {}
  /\ Cardinality(hist.ins) = calls
  /\ \A x, y \in hist.ins : x[1] = y[1] => x = y

SameKeyInserts ==
  /\ hist.rem = {}
  /\ Cardinality({x[1] : x \in hist.ins}) = 1

\* the leaves that are linked nowhere and belong to no insert that is running
unlinked ==
  {a \in Addrs : /\ heap[a].kind = "leaf"
                 /\ a \notin below(heap, Root, Cardinality(Addrs))
                 /\ \A t \in Threads : pc[t] = "idle" \/ op[t].node # a}

guarded == {g.gen : g \in {r \in UNION {HeldRefs(t) : t \in Threads} : r.kind = "TableRef"}}

IterHolds(t) ==
  (IF iters[t].live /\ iters[t].c_mapi # NoShard THEN {iters[t].c_mapi} ELSE {})
    \cup (IF pc[t] = "iter_replace" THEN {local[t].mapi} ELSE {})

\* the iterator is on shard c_map_index - 1: the shards are visited one by one
\* in increasing order
InOrder(t) ==
  iters[t].live /\ iters[t].c_mapi # NoShard => iters[t].c_mapi = iters[t].c_map_index - 1

\* C32 as stated: the iterator visits the shards in increasing order and
\* never holds the read locks of two shards at once.
C32_IterHoldsOneShardLock ==
  \A t \in Threads : InOrder(t) /\ Cardinality(IterHolds(t)) <= 1

\* C32, amended: the iterator visits the shards in increasing order and takes
\* the read lock of the next shard before it lets go of the one it is on: inside
\* next() it holds the locks of shards i and i + 1 for a moment, between two
\* calls of next() the lock of one shard at most, and a shard it has left is
\* read-locked only as long as other guards hold it.
C32_IterTakesTheNextLockBeforeItReleases ==
  /\ \A t \in Threads :
       /\ InOrder(t)
       /\ pc[t] # "iter_replace" => Cardinality(IterHolds(t)) <= 1
       /\ pc[t] = "iter_replace" =>
            /\ local[t] = [kind |-> "read", mapi |-> iters[t].c_map_index]
            /\ Cardinality(IterHolds(t)) <= 2
       /\ \A s \in IterHolds(t) : lock[s].r >= 1
  /\ \A s \in ShardIds(ncb) : SumOver(ReadGuards, Threads, s) = 0 => lock[s].r = 0

\* inside next() the iterator holds the read locks of two shards
C32_Witness ==
  \E t \in Threads : pc[t] = "iter_replace" /\ Cardinality(IterHolds(t)) = 2

\* the Arcs of read guards of shard s that are alive, each named by its thread
\* and its iterator: an Arc lives in the c_iter of its iterator and in the
\* references the iterator has yielded from s
Arcs(s) == UNION {{<<t, gen>> : gen \in IterGuards(t, s)} : t \in Threads}

\* the read guards of shard s that are no iterator's
PlainReadGuards(t, s) ==
  RefsInto(t, s, {"shared", "chunk"})
    + (IF local[t] = [kind |-> "read", mapi |-> s] THEN 1 ELSE 0)

\* C33: the references an iterator yields from shard s share one read guard of
\* s with the iterator: while the iterator is on s or one of these references
\* lives, s is read-locked once for them all and no writer holds it, and with
\* the last of them gone that read lock is released.
C33_YieldedRefsShareTheReadGuard ==
  \A s \in ShardIds(ncb) :
    /\ Arcs(s) # {} => ~lock[s].w
    /\ lock[s].r = Cardinality(Arcs(s)) + SumOver(PlainReadGuards, Threads, s)

\* two references yielded from one shard live on after the iterator has left
\* the shard, which they keep read-locked once
C33_Witness ==
  \E t \in Threads : \E g, h \in HeldRefs(t) :
    /\ g.kind = "iterref" /\ h.kind = "iterref"
    /\ g.key # h.key /\ g.mapi = h.mapi /\ g.gen = h.gen
    /\ iters[t].c_mapi # g.mapi
    /\ lock[g.mapi].r = 1

\* where a bulk operation waits for the write lock of shard op[t].i, and where
\* it works on that shard under the lock
BulkLock == {"clear_lock", "retain_lock", "alter_lock"}
BulkBody == {"clear_body", "retain_body", "alter_body"}

\* a bulk operation holds the write lock of the shard it works on and of no
\* other; a shard is write-locked only by the operation that works on it
OneShardAtATime ==
  /\ \A t \in Threads :
       /\ pc[t] \in BulkLock => local[t] = NoGuard
       /\ pc[t] \in BulkBody => local[t] = [kind |-> "write", mapi |-> op[t].i]
  /\ \A s \in ShardIds(ncb) :
       lock[s] = IF \E t \in Threads : pc[t] \in BulkBody /\ op[t].i = s
                   THEN AcqWrite(Unlocked) ELSE Unlocked

\* while a bulk operation runs some thread can take a step
NoBulkDeadlock ==
  (\E t \in Threads : pc[t] # "idle") =>
     \E t \in Threads : \/ pc[t] \in BulkBody
                         \/ (pc[t] \in BulkLock /\ CanWrite(lock[op[t].i]))

\* the shards are locked in the order of their indices, the lock of one is
\* released in the step that turns to the next
InShardOrder ==
  \A t \in Threads :
    /\ pc[t] = "idle" /\ pc'[t] \in BulkLock => op'[t].i = 0
    /\ pc[t] \in BulkBody /\ pc'[t] \in BulkLock =>
         /\ op'[t].i = op[t].i + 1
         /\ ~lock'[op[t].i].w
    /\ pc[t] \in BulkBody /\ pc'[t] = "idle" =>
         /\ op[t].i = ncm(ncb) - 1
         /\ ~lock'[op[t].i].w

\* C34: retain, clear and alter write-lock the shards one at a time in the
\* order of their indices and release the lock of a shard before they take the
\* next: a bulk operation never holds two shard locks, and concurrent bulk
\* operations never bring each other to a halt.
C34_BulkOpsLockOneShardAtATime ==
  [](OneShardAtATime /\ NoBulkDeadlock) /\ [][InShardOrder]_vars

\* a bulk operation waits for the shard another bulk operation works on
C34_Witness ==
  \E t, u \in Threads :
    /\ pc[t] \in BulkBody /\ pc[u] \in BulkLock
    /\ op[t].name # op[u].name
    /\ op[u].i = op[t].i /\ op[t].i > 0

(* ------------------------------- do_check ------------------------------- *)
\* where do_check stands once it holds both MutexGuards
InDoCheck == {"do_check_save", "do_check_save_lock", "do_check_save_body", "do_check_purge",
              "do_check_purge_lock", "do_check_purge_body", "do_check_return"}

\* C35 as stated: no thread holds a timestamp mutex together with a shard lock.
C35_NoMutexWithAShardLock ==
  \A t \in Threads : local[t] # NoGuard => mtx.saved # t /\ mtx.purged # t

\* C35, amended: do_check takes the mutex of last_saved and then that of
\* last_purged before it reads a timestamp and holds both until it returns,
\* through both passes and under every shard lock they take; only do_check
\* holds them, so that calls of do_check run one after the other.
C35_DoCheckHoldsBothMutexesToItsEnd ==
  \A t \in Threads :
    /\ pc[t] \in InDoCheck <=> mtx.purged = t
    /\ pc[t] \in InDoCheck \cup {"do_check_last_purged"} <=> mtx.saved = t
    /\ pc[t] \in {"do_check_save_body", "do_check_purge_body"} =>
         local[t] = [kind |-> "write", mapi |-> op[t].i]

\* a do_check holds both mutexes and the write lock of a shard, and another
\* do_check waits for the mutex of last_saved
C35_Witness ==
  \E t, u \in Threads :
    /\ pc[t] = "do_check_save_body" /\ local[t].kind = "write"
    /\ mtx = [saved |-> t, purged |-> t]
    /\ pc[u] = "do_check_last_saved"

\* thread t takes a step of its do_check
CheckStep(t) == op[t].name = "do_check" /\ pc'[t] # pc[t]

\* the gate of a pass: the pass runs iff more than its interval lies between
\* the timestamp and the now of the call, and then the timestamp is that now
Gated(t) ==
  /\ pc[t] = "do_check_save" =>
       IF duration_since(op[t].inst, last_saved) > save_interval
         THEN last_saved' = op[t].inst /\ pc'[t] = "do_check_save_lock"
         ELSE last_saved' = last_saved /\ pc'[t] = "do_check_purge"
  /\ pc[t] = "do_check_purge" =>
       IF duration_since(op[t].inst, last_purged) > valid_check_interval
         THEN last_purged' = op[t].inst /\ pc'[t] = "do_check_purge_lock"
         ELSE last_purged' = last_purged /\ pc'[t] = "do_check_return"

\* what a do_check does it does in its passes: save_item_fn is called and a
\* clean bit is set in the save pass only, an entry is removed in the purge
\* pass only, a timestamp is written at its gate only
InPassesOnly(t) ==
  /\ pc[t] # "do_check_save_body" =>
       /\ evals'[t] = evals[t] \/ pc[t] = "idle"
       /\ store' = store
       /\ \A s \in ShardIds(ncb), k \in Keys :
            occupied(submaps'[s][k]) => submaps'[s][k] = submaps[s][k]
  /\ pc[t] # "do_check_purge_body" =>
       \A s \in ShardIds(ncb), k \in Keys : occupied(submaps[s][k]) => occupied(submaps'[s][k])
  /\ pc[t] # "do_check_save" => last_saved' = last_saved
  /\ pc[t] # "do_check_purge" => last_purged' = last_purged

\* C39: a do_check for which neither interval has passed calls save on no
\* entry, removes none and leaves the timestamps and the clean bits as they
\* are; a pass that runs sets its timestamp to the now of the call, so that a
\* do_check within the interval does not run it again; and no timestamp ever
\* decreases.
C39_DoCheckPassesAreGatedByTheirTimestamps ==
  [][/\ \A t \in Threads : CheckStep(t) => Gated(t) /\ InPassesOnly(t)
     /\ last_saved' >= last_saved
     /\ last_purged' >= last_purged]_vars

\* a do_check is about to return that ran no pass, both timestamps being later
\* than its now, while a modified entry waits to be saved
C39_Witness ==
  \E t \in Threads :
    /\ pc[t] = "do_check_return"
    /\ op[t].inst < last_saved /\ op[t].inst < last_purged
    /\ evals[t] = [k \in Keys |-> 0]
    /\ \E s \in ShardIds(ncb), k \in Keys : occupied(submaps[s][k]) /\ ~submaps[s][k].clean

(* -------------------------------- liveness ------------------------------ *)
\* a unique reference of thread t into shard s keeps s write-locked: a get or
\* an insert on a key of s has to wait
HeldShardIsShut ==
  \A t \in Threads : \A g \in HeldRefs(t) :
    g.kind = "unique" => lock[g.mapi].w /\ ~CanRead(lock[g.mapi]) /\ ~CanWrite(lock[g.mapi])

\* and it is the holder alone that opens the shard again, by dropping the
\* reference: a holder that waits for the shard itself waits for ever
OnlyTheHolderOpens ==
  \A t \in Threads : \A g \in HeldRefs(t) :
    g.kind = "unique" /\ ~lock'[g.mapi].w => ~BagIn(g, refs'[t])

LeavesInPlace ==
  \A a \in Addrs : heap[a].kind = "branch" =>
    \A s \in Slots : LET b == heap[a].buckets[s]
                     IN b # Null /\ heap[b].kind = "leaf" => position(heap[b].key, heap[a].nonce) = s

spare(segment) == len(segment) < SEGMENT_SIZE

\* a step of alloc that adds a segment to its pool
Grows(p) == Len(pools'[p].segments) > Len(pools[p].segments)

\* C37: alloc(tag) always ends.  It works on the pool tag mod pool_count and
\* hands out a slot of the first segment with a slot to spare; it makes a new
\* segment only when no segment of the pool has one; no segment holds more
\* than SEGMENT_SIZE objects.
C37_AllocEndsAndFillsSegmentsFirst ==
  /\ \A t \in Threads : (pc[t] = "MemoryPool_alloc") ~> (pc[t] = "idle")
  /\ [][\A p \in DOMAIN pools : Grows(p) =>
          \A i \in DOMAIN pools[p].segments : ~spare(pools[p].segments[i])]_vars
  /\ [](\A p \in DOMAIN pools : \A i \in DOMAIN pools[p].segments :
          len(pools[p].segments[i]) <= SEGMENT_SIZE)

\* the pointers of the occupied entries of a pool
live(p) ==
  {<<i, key>> \in (DOMAIN pools[p].segments) \X (0..SEGMENT_SIZE) :
     /\ key < Len(pools[p].segments[i].objects)
     /\ pools[p].segments[i].objects[key + 1] # VacantKey}

address(p, x) == Pointer(pools[p].segments[x[1]].id, x[2])

\* thread t leaves dealloc(tag, ptr) for a pointer that alloc(tag) handed out
\* and that is still live
GivesBack(t) ==
  /\ pc[t] = "MemoryPool_dealloc"
  /\ pc'[t] = "idle"
  /\ \E x \in live(op[t].key % pool_count) : address(op[t].key % pool_count, x) = op[t].node

\* C31: alloc(tag) hands out a pointer p, which the caller initialises with v;
\* dealloc(tag, p) works on the same pool tag mod pool_count, returns v and
\* releases that slot and no other; the pointers handed out and not given
\* back differ from one another and stay where they are while other slots
\* come and go.  (The trie hands every node back with the tag it got it
\* with: the tag of a leaf is kept in its entry, that of a branch is 0.)
C31_AllocDeallocRoundTrip ==
  /\ \A t \in Threads :
       (pc[t] = "MemoryPool_alloc") ~> (ret[t].op = "UniformAllocator::alloc" /\ ret[t].tag = "ptr")
  /\ [][\A t \in Threads : GivesBack(t) =>
          LET p == op[t].key % pool_count
              x == CHOOSE x \in live(p) : address(p, x) = op[t].node
          IN /\ ret'[t].tag = "Some"
             /\ ret'[t].val = pools[p].segments[x[1]].objects[x[2] + 1]
             /\ live(p)' = live(p) \ {x}
             /\ \A y \in live(p)' : address(p, y)' = address(p, y)]_vars
  /\ [](\A p \in DOMAIN pools : \A x, y \in live(p) : address(p, x) = address(p, y) => x = y)

(* ----------------------------- HLTimedCache ----------------------------- *)
\* a key that lookup knows is in saved if its flag is set and in unsaved if
\* not, and in one of the two only; looked at whenever no map_mut holds the
\* flag
InItsMap(k) ==
  hl.lookup[k] # "none" /\ ~hl.lock[k].w =>
    /\ hl.lookup[k] = "true" => present(hl.saved[k]) /\ ~present(hl.unsaved[k])
    /\ hl.lookup[k] = "false" => present(hl.unsaved[k]) /\ ~present(hl.saved[k])

\* a task that sets the flag of k, or puts the entry of k into saved, is one
\* whose save of k succeeded
BackAfterSuccess(k) ==
  \A task \in hl.tasks \ hl'.tasks :
    task.k = k /\ task.at \in {"lookup", "insert"} => task.ok

\* C40: in every state, the saves spawned by do_check being in flight or not,
\* every key of lookup is in exactly one of saved and unsaved, the one its
\* flag names, so that map and map_mut never unwrap an entry that is missing;
\* and an entry goes back to saved, flagged saved, only after its save has
\* succeeded.
C40_LookupFlagNamesTheMapOfTheEntry ==
  /\ [](\A k \in Keys : InItsMap(k))
  /\ [](\A t \in Threads : ret[t].tag # "unwrap")
  /\ [][\A k \in Keys : BackAfterSuccess(k)]_vars

====
